---- MODULE Spec2Model ----
(***************************************************************************)
(* Verification model of the onTro-finance knowledge-arbitration engine.   *)
(*                                                                         *)
(* Part 1: the in-memory graph repository and the KG transaction manager   *)
(*         (src/src/storage/inmemory_repository.py,                        *)
(*          src/src/storage/transaction_manager.py).                       *)
(*                                                                         *)
(* Python reference semantics.  get_entity returns the stored row object   *)
(* itself and get_relation returns a wrapper around the stored props       *)
(* object; upsert_* mutate those objects in place.  A ChangeRecord's       *)
(* before_state therefore stays an alias of the live row until the row is  *)
(* removed from the repository.  At any time there is at most one live     *)
(* object per entity id / relation key, so an alias is modelled as         *)
(* [kind |-> "alias"] (its value is whatever the repository holds now) and *)
(* is turned into [kind |-> "copy", row |-> v] at the moment the row is    *)
(* deleted (from then on nobody mutates the dead object).                  *)
(***************************************************************************)
EXTENDS Integers, Sequences, FiniteSets, TLC

\* ------------------------------------------------------------------------
\* Bounds
\* ------------------------------------------------------------------------
MaxTx == 2          \* transactions ever begun
MaxCalls == 2       \* state-changing API calls in one run

\* ------------------------------------------------------------------------
\* Value domains
\* ------------------------------------------------------------------------
EntityIds == {"A", "B"}
RelKeys == {<<"A", "domain:Affect", "B">>, <<"A", "personal:Affect", "B">>,
            <<"B", "domain:Affect", "A">>}
TxIds == 1..MaxTx

\* (labels, props) arguments of create_entity / update_entity calls
CreateEntityIn == {<<"DomainEntity", [name |-> "n1"]>>}
UpdateEntityIn == {<<"PersonalEntity", [name |-> "n2", type |-> "entity"]>>}
\* props argument of create_relation / update_relation calls
CreateRelIn == {[sign |-> "+"]}
UpdateRelIn == {[sign |-> "-", origin |-> "student"]}
Errors == {"ValueError"}

\* entity ids / relation keys the transaction-manager calls of a run are made on
TxEntityIds == {"A"}
TxRelKeys == {<<"A", "domain:Affect", "B">>}

\* Python None where a row, relation, candidate or result is expected
None == [present |-> FALSE]
NoBefore == [kind |-> "none"]
Alias == [kind |-> "alias"]
NoError == "none"

VARIABLES
    entities,     \* InMemoryGraphRepository._entities : id -> row
    relations,    \* InMemoryGraphRepository._relations : key -> row
    txState,      \* Transaction.state
    txChanges,    \* Transaction.changes
    txError,      \* Transaction.error
    activeTx,     \* KGTransactionManager._active_tx (its key set)
    txHistory,    \* KGTransactionManager._tx_history
    scope,        \* where the `with transaction()` block of each tx stands
    caught,       \* the exception the caller of the scope received
    callResult,   \* outcome of the last mutating call made with a tx handle
    pre,          \* repository as it was when the transaction began
    calls,        \* number of state-changing API calls made so far
    staticRules,         \* StaticDomainGuard._rules_map : (head, tail) -> rule
    personalCandidates,  \* DomainPipeline._personal_candidates
    lastRun,             \* last process / process_batch call: its result list
    batchError,          \* exception the last process_batch call raised
    analyzerConfig,        \* PersonalDriftAnalyzer.static_guard / .dynamic_domain given?
    promotion_candidates,  \* PersonalDriftAnalyzer._promotion_candidates
    lastDrift,             \* relation and result of the last analyze call
    now,                   \* datetime.now(), in days
    pkg,                   \* PersonalKGUpdate._relations : relation_id -> relation
    stats,                 \* ValidationPipeline._stats, ReasoningPipeline._stats
    gateway,               \* LLMGateway: its configuration, _cache and _stats
    deployment             \* ReviewDeploymentManager: _bundles, _active_bundle, _deployment_history

\* state of the layers above the transaction manager
upperVars == <<staticRules, personalCandidates, lastRun, batchError,
              analyzerConfig, promotion_candidates, lastDrift, now, pkg,
                   stats,
                   gateway, deployment>>
vars == <<entities, relations, txState, txChanges, txError, activeTx,
          txHistory, scope, caught, callResult, pre, calls, upperVars>>

\* ------------------------------------------------------------------------
\* Repository (pure operators over a world W = [ents, rels, logs])
\* ------------------------------------------------------------------------
World == [ents |-> entities, rels |-> relations, logs |-> txChanges]

\* dict.update: shallow merge, keys of `new` win
Merge(old, new) ==
    [k \in (DOMAIN old) \cup (DOMAIN new) |->
        IF k \in DOMAIN new THEN new[k] ELSE old[k]]

\* a row object leaves the repository: every before_state aliasing it keeps
\* the value the object had at that moment
FreezeE(logs, id, row) ==
    [t \in DOMAIN logs |->
        [i \in 1..Len(logs[t]) |->
            IF logs[t][i].entity_id = id /\ logs[t][i].before = Alias
            THEN [logs[t][i] EXCEPT !.before = [kind |-> "copy", row |-> row]]
            ELSE logs[t][i]]]

FreezeR(logs, keys, rels) ==
    [t \in DOMAIN logs |->
        [i \in 1..Len(logs[t]) |->
            IF logs[t][i].key \in keys /\ logs[t][i].before = Alias
            THEN [logs[t][i] EXCEPT
                    !.before = [kind |-> "copy", row |-> rels[logs[t][i].key]]]
            ELSE logs[t][i]]]

upsert_entity(W, id, labels, props) ==
    IF W.ents[id].present
    THEN [W EXCEPT !.ents[id] = [present |-> TRUE, labels |-> labels,
                                 props |-> Merge(@.props, props)]]
    ELSE [W EXCEPT !.ents[id] = [present |-> TRUE, labels |-> labels,
                                 props |-> props]]

upsert_relation(W, key, props) ==
    IF W.rels[key].present
    THEN [W EXCEPT !.rels[key] = [present |-> TRUE,
                                  props |-> Merge(@.props, props)]]
    ELSE [W EXCEPT !.rels[key] = [present |-> TRUE, props |-> props]]

get_entity(W, id) == W.ents[id]
get_relation(W, key) == W.rels[key]

delete_entity(W, id) ==
    IF ~W.ents[id].present THEN W
    ELSE LET to_remove == {k \in RelKeys : W.rels[k].present
                                             /\ (k[1] = id \/ k[3] = id)}
             logs1 == FreezeR(W.logs, to_remove, W.rels)
             logs2 == FreezeE(logs1, id, W.ents[id])
         IN [ents |-> [W.ents EXCEPT ![id] = None],
             rels |-> [k \in RelKeys |->
                         IF k \in to_remove THEN None ELSE W.rels[k]],
             logs |-> logs2]

delete_relation(W, key) ==
    IF ~W.rels[key].present THEN W
    ELSE [W EXCEPT !.rels[key] = None,
                   !.logs = FreezeR(W.logs, {key}, W.rels)]

count_entities(E) == Cardinality({id \in EntityIds : E[id].present})
count_relations(R) == Cardinality({k \in RelKeys : R[k].present})

\* ------------------------------------------------------------------------
\* Transaction manager
\* ------------------------------------------------------------------------
ChangeRecord(op, id, key, before) ==
    [operation |-> op, entity_id |-> id, key |-> key, before |-> before]

\* the value a before_state denotes right now
BeforeRow(rec, live) == IF rec.before = Alias THEN live ELSE rec.before.row

undo_change(W, rec) ==
    CASE rec.operation = "create_entity" ->
            delete_entity(W, rec.entity_id)
      [] rec.operation \in {"update_entity", "delete_entity"} ->
            IF rec.before = NoBefore THEN W
            ELSE upsert_entity(W, rec.entity_id,
                               BeforeRow(rec, W.ents[rec.entity_id]).labels,
                               BeforeRow(rec, W.ents[rec.entity_id]).props)
      [] rec.operation = "create_relation" ->
            delete_relation(W, rec.key)
      [] rec.operation \in {"update_relation", "delete_relation"} ->
            IF rec.before = NoBefore THEN W
            ELSE upsert_relation(W, rec.key,
                                 BeforeRow(rec, W.rels[rec.key]).props)

\* for change in reversed(tx.changes): self._undo_change(change)
RECURSIVE undo_from(_, _, _)
undo_from(W, t, i) ==
    IF i = 0 THEN W ELSE undo_from(undo_change(W, W.logs[t][i]), t, i - 1)

\* variant: only a rolled-back transaction is refused
check_tx_active_not_rolled_back(t) == txState[t] # "rolled_back"

check_tx_active(t) == txState[t] = "active"

Record(W, t, rec) == [W EXCEPT !.logs[t] = Append(@, rec)]

create_entity(W, t, id, labels, props) ==
    Record(upsert_entity(W, id, labels, props), t,
           ChangeRecord("create_entity", id, <<>>, NoBefore))

update_entity(W, t, id, labels, props) ==
    LET before == IF get_entity(W, id).present THEN Alias ELSE NoBefore
    IN Record(upsert_entity(W, id, labels, props), t,
              ChangeRecord("update_entity", id, <<>>, before))

tx_delete_entity(W, t, id) ==
    IF ~get_entity(W, id).present THEN W
    ELSE LET W0 == Record(W, t, ChangeRecord("delete_entity", id, <<>>, Alias))
         IN delete_entity(W0, id)

create_relation(W, t, key, props) ==
    Record(upsert_relation(W, key, props), t,
           ChangeRecord("create_relation", "", key, NoBefore))

update_relation(W, t, key, props) ==
    LET before == IF get_relation(W, key).present THEN Alias ELSE NoBefore
    IN Record(upsert_relation(W, key, props), t,
              ChangeRecord("update_relation", "", key, before))

tx_delete_relation(W, t, key) ==
    IF ~get_relation(W, key).present THEN W
    ELSE LET W0 == Record(W, t, ChangeRecord("delete_relation", "", key, Alias))
         IN delete_relation(W0, key)

Apply(W) ==
    /\ entities' = W.ents
    /\ relations' = W.rels
    /\ txChanges' = W.logs

Ok(op, t) == [error |-> NoError, severity |-> NoError]
NotActive(op, t) == [error |-> "StorageError", severity |-> "high"]

\* repositories a run starts from (built by GraphRepository.upsert_* calls,
\* as DomainKGAdapter.load_domain_data does at bootstrap)
EmptyRepo == [ents |-> [id \in EntityIds |-> None],
              rels |-> [k \in RelKeys |-> None],
              logs |-> [t \in TxIds |-> <<>>]]
LoadedEnts == [id \in EntityIds |->
                  [present |-> TRUE, labels |-> "DomainEntity",
                   props |-> [name |-> "n1"]]]

\* KGTransactionManager.__init__: no transaction yet
InitTxManager ==
    /\ txState = [t \in TxIds |-> "unborn"]
    /\ txChanges = [t \in TxIds |-> <<>>]
    /\ txError = [t \in TxIds |-> NoError]
    /\ activeTx = {}
    /\ txHistory = <<>>
    /\ scope = [t \in TxIds |-> "none"]
    /\ caught = [t \in TxIds |-> NoError]
    /\ callResult = Ok("none", 0)
    /\ pre = [t \in TxIds |-> [ents |-> EmptyRepo.ents,
                               rels |-> EmptyRepo.rels]]
    /\ calls = 0

\* DomainPipeline.__init__ : nothing processed yet
\* (PersonalPipeline() as main.py builds it is given both collaborators)
InitPipeline ==
    /\ personalCandidates = <<>>
    /\ lastRun = [op |-> "none", results |-> <<>>]
    /\ batchError = NoError
    \* PersonalDriftAnalyzer.__init__ : no promotion candidate yet
    /\ promotion_candidates = <<>>
    /\ lastDrift = None
    /\ now = 0
    \* PersonalKGUpdate.__init__ : no relation stored
    /\ pkg = <<>>
    \* ValidationPipeline.__init__
    /\ stats = [total |-> 0, schema_passed |-> 0, sign_passed |-> 0,
                semantic_passed |-> 0, domain_candidate |-> 0,
                personal_candidate |-> 0, dropped |-> 0,
                \* ReasoningPipeline.__init__ ; avg_paths_used is
                \* paths_used_total / queries_processed
                queries_processed |-> 0, paths_used_total |-> 0]
    \* no LLMGateway is built yet
    /\ gateway = None
    \* ReviewDeploymentManager.__init__ ; bundle_v<i> is bundle i, and no
    \* active bundle is 0
    /\ deployment = [bundles |-> <<>>, active_bundle |-> 0,
                     deployment_history |-> <<>>]

Init ==
    /\ \/ entities = EmptyRepo.ents /\ relations = EmptyRepo.rels
       \/ /\ entities = LoadedEnts
          /\ \E ks \in {{k \in RelKeys : k[2] = "domain:Affect"}, RelKeys} :
                relations = [k \in RelKeys |->
                               IF k \in ks
                               THEN [present |-> TRUE, props |-> [sign |-> "+"]]
                               ELSE None]
    /\ InitTxManager
    /\ staticRules = {}
    /\ InitPipeline
    /\ analyzerConfig = [static_guard |-> TRUE, dynamic_domain |-> TRUE]

\* ------------------------------------------------------------------------
\* Transaction lifecycle (KGTransactionManager.transaction / _begin /
\* _commit / _rollback)
\* ------------------------------------------------------------------------
NoScopeOpen == \A u \in TxIds : scope[u] # "open"

\* tx ids are fresh (uuid); the model hands them out in order
begin(t) ==
    /\ txState[t] = "unborn"
    /\ \A u \in TxIds : u < t => txState[u] # "unborn"
    /\ txState' = [txState EXCEPT ![t] = "active"]
    /\ activeTx' = activeTx \cup {t}
    /\ scope' = [scope EXCEPT ![t] = "open"]
    /\ pre' = [pre EXCEPT ![t] = [ents |-> entities, rels |-> relations]]
    /\ UNCHANGED <<entities, relations, txChanges, txError, txHistory,
                   caught, callResult, calls, upperVars>>

commit(t) ==
    /\ txState' = [txState EXCEPT ![t] = "committed"]
    /\ activeTx' = activeTx \ {t}
    /\ txHistory' = Append(txHistory, t)
    /\ UNCHANGED <<entities, relations, txChanges, txError>>

\* variant: the transaction is undone but stays in _active_tx
rollback_keeps_active(t, error) ==
    IF t \notin activeTx
    THEN UNCHANGED <<entities, relations, txChanges, txState, txError,
                     activeTx, txHistory>>
    ELSE /\ Apply(undo_from(World, t, Len(txChanges[t])))
         /\ txState' = [txState EXCEPT ![t] = "rolled_back"]
         /\ txError' = [txError EXCEPT ![t] = error]
         /\ txHistory' = Append(txHistory, t)
         /\ UNCHANGED activeTx

rollback(t, error) ==
    IF t \notin activeTx
    THEN UNCHANGED <<entities, relations, txChanges, txState, txError,
                     activeTx, txHistory>>
    ELSE /\ Apply(undo_from(World, t, Len(txChanges[t])))
         /\ txState' = [txState EXCEPT ![t] = "rolled_back"]
         /\ txError' = [txError EXCEPT ![t] = error]
         /\ activeTx' = activeTx \ {t}
         /\ txHistory' = Append(txHistory, t)

\* the exception that leaves the `with` block after `except Exception: ...; raise`
reraise(t, e) == caught' = [caught EXCEPT ![t] = e]

\* a transaction scope is entered; at most one scope is open at a time
BeginSeq(t) == NoScopeOpen /\ begin(t)

\* a transaction scope is entered, possibly while another one is open
BeginAny(t) ==
    /\ txState[t] = "unborn"
    /\ begin(t)

\* the body finishes normally: yield returns, _commit runs; a StorageError
\* raised by _commit is caught by `except Exception`, rolled back, re-raised
ExitNormal(t) ==
    /\ scope[t] = "open"
    /\ IF t \in activeTx
       THEN /\ commit(t)
            /\ scope' = [scope EXCEPT ![t] = "exited_normal"]
            /\ UNCHANGED caught
       ELSE /\ rollback(t, "Transaction not found")
            /\ scope' = [scope EXCEPT ![t] = "exited_error"]
            /\ reraise(t, "StorageError")
    /\ UNCHANGED <<callResult, pre, calls, upperVars>>

\* an Exception propagates out of the body
ExitError(t, e) ==
    /\ scope[t] = "open"
    /\ rollback(t, e)
    /\ reraise(t, e)
    /\ scope' = [scope EXCEPT ![t] = "exited_error"]
    /\ UNCHANGED <<callResult, pre, calls, upperVars>>

\* the body is left by a BaseException that is not an Exception
\* (KeyboardInterrupt, SystemExit, GeneratorExit of a discarded handle):
\* `except Exception` does not match, neither _commit nor _rollback runs
ExitAbandon(t) ==
    /\ scope[t] = "open"
    /\ scope' = [scope EXCEPT ![t] = "abandoned"]
    /\ UNCHANGED <<entities, relations, txState, txChanges, txError, activeTx,
                   txHistory, caught, callResult, pre, calls, upperVars>>

\* ------------------------------------------------------------------------
\* CRUD with a transaction handle.  A handle of an ACTIVE transaction is
\* used inside its scope; a closed handle can be used anywhere.
\* ------------------------------------------------------------------------
CanCall(t) ==
    /\ txState[t] # "unborn"
    /\ txState[t] = "active" => scope[t] = "open"
    /\ check_tx_active(t) => calls < MaxCalls

Call(t, op, W) ==
    /\ IF check_tx_active(t)
       THEN Apply(W) /\ callResult' = Ok(op, t) /\ calls' = calls + 1
       ELSE /\ callResult' = NotActive(op, t)
            /\ UNCHANGED <<entities, relations, txChanges, calls>>
    /\ UNCHANGED <<txState, txError, activeTx, txHistory, scope, caught, pre,
                   upperVars>>

CreateEntity(t, id, labels, props) ==
    /\ CanCall(t)
    /\ Call(t, "create_entity", create_entity(World, t, id, labels, props))
UpdateEntity(t, id, labels, props) ==
    /\ CanCall(t)
    /\ Call(t, "update_entity", update_entity(World, t, id, labels, props))
DeleteEntity(t, id) ==
    /\ CanCall(t)
    /\ Call(t, "delete_entity", tx_delete_entity(World, t, id))
CreateRelation(t, key, props) ==
    /\ CanCall(t)
    /\ Call(t, "create_relation", create_relation(World, t, key, props))
UpdateRelation(t, key, props) ==
    /\ CanCall(t)
    /\ Call(t, "update_relation", update_relation(World, t, key, props))
DeleteRelation(t, key) ==
    /\ CanCall(t)
    /\ Call(t, "delete_relation", tx_delete_relation(World, t, key))

\* a create/update/delete call made with the handle of transaction t
TxCalls(t) ==
    \/ \E id \in TxEntityIds, a \in CreateEntityIn : CreateEntity(t, id, a[1], a[2])
    \/ \E id \in TxEntityIds, a \in UpdateEntityIn : UpdateEntity(t, id, a[1], a[2])
    \/ \E id \in TxEntityIds : DeleteEntity(t, id)
    \/ \E k \in TxRelKeys, p \in CreateRelIn : CreateRelation(t, k, p)
    \/ \E k \in TxRelKeys, p \in UpdateRelIn : UpdateRelation(t, k, p)
    \/ \E k \in TxRelKeys : DeleteRelation(t, k)

TxExits ==
    \/ \E t \in TxIds : ExitNormal(t)
    \/ \E t \in TxIds, e \in Errors : ExitError(t, e)
    \/ \E t \in TxIds : ExitAbandon(t)

\* one caller: transactions run one after another
Next == \/ \E t \in TxIds : BeginSeq(t)
        \/ \E t \in TxIds : TxCalls(t)
        \/ TxExits
Spec == Init /\ [][Next]_vars

\* several callers: transaction scopes may overlap
NextConc == \/ \E t \in TxIds : BeginAny(t)
            \/ \E t \in TxIds : TxCalls(t)
            \/ TxExits
SpecConc == Init /\ [][NextConc]_vars

\* ------------------------------------------------------------------------
\* Properties of the transaction manager
\* ------------------------------------------------------------------------
RollsBack(t) == scope[t] = "open" /\ scope'[t] = "exited_error"
Changes(t) == {txChanges[t][i] : i \in 1..Len(txChanges[t])}

\* C1: after the rollback of a transaction whose scope exited by an error,
\* count_entities() and count_relations() equal their values at the moment
\* the transaction began (one transaction at a time, any calls).
C1_RollbackRestoresCounts ==
    [][\A t \in TxIds : RollsBack(t) =>
          /\ count_entities(entities') = count_entities(pre[t].ents)
          /\ count_relations(relations') = count_relations(pre[t].rels)]_vars

\* C3: a transaction that only updated rows which existed when it began
\* leaves, once rolled back, every updated row with the labels and props it
\* had before the transaction (before_state is the pre-mutation value).
C3_UpdateUndoneByRollback ==
    [][\A t \in TxIds :
          (/\ RollsBack(t)
           /\ txChanges[t] # <<>>
           /\ \A rec \in Changes(t) :
                 /\ rec.operation \in {"update_entity", "update_relation"}
                 /\ rec.before # NoBefore) =>
          \A rec \in Changes(t) :
             /\ rec.operation = "update_entity" =>
                    entities'[rec.entity_id] = pre[t].ents[rec.entity_id]
             /\ rec.operation = "update_relation" =>
                    relations'[rec.key] = pre[t].rels[rec.key]]_vars

\* C4: with overlapping transactions, rolling back one transaction never
\* removes or alters a row written by another transaction that committed
\* (u began after t and committed before t rolled back; u is the only
\* committed transaction).
C4_RollbackKeepsCommittedRows ==
    [][\A t \in TxIds : RollsBack(t) =>
          \A u \in TxIds :
             (/\ u > t
              /\ txState[u] = "committed"
              /\ \A w \in TxIds \ {u} : txState[w] # "committed") =>
                \A rec \in Changes(u) :
                   /\ (/\ rec.operation \in {"create_entity", "update_entity"}
                       /\ entities[rec.entity_id].present) =>
                          entities'[rec.entity_id] = entities[rec.entity_id]
                   /\ (/\ rec.operation \in {"create_relation",
                                              "update_relation"}
                       /\ relations[rec.key].present) =>
                          relations'[rec.key] = relations[rec.key]]_vars

C6_ClosedTxRejectsMutation ==
    [][\A t \in TxIds :
          (txState[t] \in {"committed", "rolled_back"} /\ TxCalls(t)) =>
             /\ callResult'.error = "StorageError"
             /\ callResult'.severity = "high"
             /\ UNCHANGED <<entities, relations, txChanges>>]_vars
C6_Witness ==
    /\ callResult.error = "StorageError"
    /\ \E t \in TxIds : txState[t] = "committed" /\ txChanges[t] # <<>>
    /\ calls < MaxCalls

\* C7: a transaction whose scope was abandoned is rolled back, is no longer
\* among the active transactions and has rollback reason "abandoned".
C7_AbandonedRollsBack ==
    \A t \in TxIds : scope[t] = "abandoned" =>
       /\ txState[t] = "rolled_back"
       /\ t \notin activeTx
       /\ txError[t] = "abandoned"

\* ========================================================================
\* Part 2: the KG adapters over the shared repository
\*         (src/src/domain/kg_adapter.py, src/src/personal/kg_adapter.py)
\*
\* Numbers the code keeps as floats in [0, 1] (domain_conf, pcs_score, ...)
\* are integers in units of 1/10000.  Timestamps are days.  last_update is
\* written to the props, but a relation read back through the adapter gets
\* last_update = now (_props_to_relation does not pass the stored one;
\* created_at is handled the same way and nothing reads it).  semantic_tags is kept as the sequence the
\* code joins with "," on write and splits on read.
\* ========================================================================
NoTx == 0
RelTypeNames == {"Affect"}
Scoped(ns, rtype) == ns \o ":" \o rtype
DomainKeys ==
    {k \in RelKeys : \E ty \in RelTypeNames : k[2] = Scoped("domain", ty)}
Unscoped(k) == CHOOSE ty \in RelTypeNames :
                  k[2] \in {Scoped("domain", ty), Scoped("personal", ty)}

\* props.get(k, default)
Get(props, k, default) == IF k \in DOMAIN props THEN props[k] ELSE default


\* DomainKGAdapter._read_only of the adapter get_domain_kg_adapter() builds
read_only == TRUE

EntityProps(name) == [name |-> name, type |-> "entity"]

DomainRelProps(r) ==
    [relation_id |-> r.relation_id, sign |-> r.sign,
     domain_conf |-> r.domain_conf, evidence_count |-> r.evidence_count,
     conflict_count |-> r.conflict_count, origin |-> r.origin,
     last_update |-> r.last_update,
     drift_flag |-> r.drift_flag, semantic_tags |-> r.semantic_tags]

\* the write both adapters make: head entity, tail entity, relation
adapter_write(W, t, label, key, head_name, tail_name, rel_props) ==
    IF t # NoTx
    THEN create_relation(
            create_entity(
               create_entity(W, t, key[1], label, EntityProps(head_name)),
               t, key[3], label, EntityProps(tail_name)),
            t, key, rel_props)
    ELSE upsert_relation(
            upsert_entity(
               upsert_entity(W, key[1], label, EntityProps(head_name)),
               key[3], label, EntityProps(tail_name)),
            key, rel_props)

\* variant: the adapter writes whether or not it is read-only
domain_upsert_relation_unguarded(W, r, t, force) ==
    adapter_write(W, t, "DomainEntity",
                  <<r.head_id, Scoped("domain", r.relation_type), r.tail_id>>,
                  r.head_name, r.tail_name, DomainRelProps(r))

domain_upsert_relation(W, r, t, force) ==
    IF read_only /\ ~force THEN W
    ELSE adapter_write(W, t, "DomainEntity",
                  <<r.head_id, Scoped("domain", r.relation_type), r.tail_id>>,
                  r.head_name, r.tail_name, DomainRelProps(r))

EntityName(W, id) ==
    IF W.ents[id].present THEN Get(W.ents[id].props, "name", id) ELSE id

props_to_relation(W, head_id, tail_id, relation_type, props) ==
    [relation_id |-> Get(props, "relation_id", ""),
     head_id |-> head_id, head_name |-> EntityName(W, head_id),
     tail_id |-> tail_id, tail_name |-> EntityName(W, tail_id),
     relation_type |-> relation_type,
     sign |-> Get(props, "sign", "+"),
     domain_conf |-> Get(props, "domain_conf", 5000),
     evidence_count |-> Get(props, "evidence_count", 1),
     conflict_count |-> Get(props, "conflict_count", 0),
     origin |-> Get(props, "origin", "unknown"),
     drift_flag |-> Get(props, "drift_flag", FALSE),
     semantic_tags |-> Get(props, "semantic_tags", <<>>),
     \* last_update is not passed: default_factory=datetime.now
     last_update |-> now,
     decay_applied |-> FALSE,
     need_conflict_resolution |-> FALSE]

domain_get_relation(W, head_id, tail_id, relation_type) ==
    LET rel == get_relation(W, <<head_id, Scoped("domain", relation_type),
                                 tail_id>>)
    IN IF ~rel.present THEN None
       ELSE props_to_relation(W, head_id, tail_id, relation_type, rel.props)

\* relation ids are unique per key in every repository of the model, so the
\* first match of the scan is the only one
domain_get_relation_by_id(W, relation_id) ==
    LET hits == {k \in DomainKeys :
                    /\ W.rels[k].present
                    /\ "relation_id" \in DOMAIN W.rels[k].props
                    /\ W.rels[k].props.relation_id = relation_id}
    IN IF hits = {} THEN None
       ELSE LET k == CHOOSE k \in hits : TRUE
            IN props_to_relation(W, k[1], k[3], Unscoped(k), W.rels[k].props)

domain_get_all_relations(W) ==
    {props_to_relation(W, k[1], k[3], Unscoped(k), W.rels[k].props) :
        k \in {j \in DomainKeys :
                  /\ W.rels[j].present
                  /\ Get(W.rels[j].props, "relation_id", "") # ""}}

domain_delete_relation(W, head_id, tail_id, relation_type, t, force) ==
    IF read_only /\ ~force THEN W
    ELSE LET key == <<head_id, Scoped("domain", relation_type), tail_id>>
         IN IF t # NoTx THEN tx_delete_relation(W, t, key)
            ELSE delete_relation(W, key)

personal_upsert_relation(W, r, t) ==
    adapter_write(W, t, "PersonalEntity",
                  <<r.head_id, Scoped("personal", r.relation_type), r.tail_id>>,
                  r.head_name, r.tail_name,
              [relation_id |-> r.relation_id, sign |-> r.sign, user_id |-> r.user_id,
               pcs_score |-> r.pcs_score, personal_weight |-> r.personal_weight,
               personal_label |-> r.personal_label, source_type |-> r.source_type,
               occurrence_count |-> r.occurrence_count,
               domain_conflict |-> r.domain_conflict,
               domain_conflict_count |-> r.domain_conflict_count,
               promotion_candidate |-> r.promotion_candidate,
               drift_flag |-> r.drift_flag])

\* ========================================================================
\* Part 3: the Domain sector (src/src/domain/intake.py, static_guard.py,
\*         dynamic_update.py, conflict_analyzer.py, drift_detector.py,
\*         pipeline.py)
\*
\* An input edge is the RawEdge together with its ValidationResult and the
\* resolved entities: passed (validation_passed), destination, resolved
\* (both entities are in resolved_entities), relevant (fragment text of at
\* least 10 characters without a personal-opinion pattern), head / tail
\* (canonical ids), relation_type, sign_result (polarity_final of the sign
\* validator or "none"), polarity_guess, semantic_tag.
\* ========================================================================

normalize_polarity(e) ==
    IF e.sign_result # "none" THEN e.sign_result
    ELSE IF e.polarity_guess \in {"+", "-", "neutral"} THEN e.polarity_guess
    ELSE "unknown"

intake_process(e) ==
    IF e.destination # "domain_candidate" THEN None
    ELSE IF ~e.resolved THEN None
    ELSE IF ~e.relevant THEN None
    ELSE [raw_edge_id |-> e.raw_edge_id,
          head_canonical_id |-> e.head, head_canonical_name |-> e.head,
          tail_canonical_id |-> e.tail, tail_canonical_name |-> e.tail,
          relation_type |-> e.relation_type,
          polarity |-> normalize_polarity(e),
          semantic_tag |-> e.semantic_tag,
          freq_count |-> 1, evidence_source |-> "student"]

\* StaticDomainGuard: rules is the set of rules, at most one per (head, tail)
is_static_relation(rules, head_id, tail_id) ==
    \E r \in rules : r.head = head_id /\ r.tail = tail_id
get_static_rule(rules, head_id, tail_id) ==
    CHOOSE r \in rules : r.head = head_id /\ r.tail = tail_id

static_guard_check(rules, c) ==
    IF ~is_static_relation(rules, c.head_canonical_id, c.tail_canonical_id)
    THEN [static_pass |-> TRUE, static_conflict |-> FALSE,
          action |-> "create_new_relation"]
    ELSE LET rule == get_static_rule(rules, c.head_canonical_id,
                                     c.tail_canonical_id)
         IN IF /\ rule.polarity # ""
               /\ c.polarity # "unknown"
               /\ c.polarity # rule.polarity
            THEN [static_pass |-> FALSE, static_conflict |-> TRUE,
                  action |-> "reject_to_personal"]
            ELSE [static_pass |-> TRUE, static_conflict |-> FALSE,
                  action |-> "strengthen_static_evidence"]

\* DynamicDomainUpdate
initial_conf == 5000
conf_decrease_rate == 800
decay_days == 30

\* conf_increase_rate / math.sqrt(evidence_count), rounded down; root is the
\* floor of 1000 * sqrt(n)
conf_increase(n) ==
    LET root == CHOOSE r \in 0..(1000 * n) :
                    r * r <= n * 1000000 /\ (r + 1) * (r + 1) > n * 1000000
    IN (500 * 1000) \div root

RECURSIVE decay_factor_applied(_, _)
\* conf * decay_rate ** periods, decay_rate = 0.98
decay_factor_applied(conf, periods) ==
    IF periods = 0 THEN conf
    ELSE decay_factor_applied((conf * 98) \div 100, periods - 1)

apply_decay(rel) ==
    IF now - rel.last_update < decay_days THEN rel
    ELSE [rel EXCEPT
            !.domain_conf = decay_factor_applied(
                                @, (now - rel.last_update) \div decay_days),
            !.decay_applied = TRUE]

\* variant: no upper limit on domain_conf
strengthen_relation_uncapped(rel, c) ==
    [rel EXCEPT !.evidence_count = @ + 1,
                !.last_update = now,
                !.domain_conf = @ + conf_increase(rel.evidence_count + 1)]

strengthen_relation(rel, c) ==
    [rel EXCEPT !.evidence_count = @ + 1,
                !.last_update = now,
                !.domain_conf =
                    LET raised == @ + conf_increase(rel.evidence_count + 1)
                    IN IF raised > 9500 THEN 9500 ELSE raised]

weaken_relation(rel, c) ==
    [rel EXCEPT !.conflict_count = @ + 1,
                !.last_update = now,
                !.need_conflict_resolution = TRUE,
                !.domain_conf = IF @ - conf_decrease_rate < 1000 THEN 1000
                                ELSE @ - conf_decrease_rate]

InSeq(x, q) == \E i \in 1..Len(q) : q[i] = x

create_new_relation(W, c, t) ==
    LET \* generate_id("DYN"): a fresh id; one per relation key in the model
        relation == [relation_id |-> "DYN_" \o c.head_canonical_id \o "_"
                                        \o c.relation_type \o "_"
                                        \o c.tail_canonical_id,
                     head_id |-> c.head_canonical_id,
                     head_name |-> c.head_canonical_name,
                     tail_id |-> c.tail_canonical_id,
                     tail_name |-> c.tail_canonical_name,
                     relation_type |-> c.relation_type,
                     sign |-> c.polarity,
                     domain_conf |-> initial_conf,
                     evidence_count |-> 1,
                     conflict_count |-> 0,
                     origin |-> c.evidence_source,
                     drift_flag |-> FALSE,
                     semantic_tags |-> <<c.semantic_tag>>,
                     last_update |-> now,
                     decay_applied |-> FALSE,
                     need_conflict_resolution |-> FALSE]
    IN [W |-> domain_upsert_relation(W, relation, t, FALSE),
        result |-> [relation_id |-> relation.relation_id,
                    action |-> "create_new_relation",
                    domain_conf |-> relation.domain_conf,
                    evidence_count |-> relation.evidence_count,
                    decayed |-> FALSE, conflict_pending |-> FALSE,
                    is_new |-> TRUE]]

update_existing_relation(W, relation, c, t) ==
    LET decayed == apply_decay(relation)
        same == c.polarity = relation.sign \/ c.polarity = "unknown"
        changed == IF same THEN strengthen_relation(decayed, c)
                   ELSE weaken_relation(decayed, c)
        tagged == IF InSeq(c.semantic_tag, changed.semantic_tags) THEN changed
                  ELSE [changed EXCEPT
                          !.semantic_tags = Append(@, c.semantic_tag)]
    IN [W |-> domain_upsert_relation(W, tagged, t, FALSE),
        result |-> [relation_id |-> tagged.relation_id,
                    action |-> IF same THEN "update_existing"
                               ELSE "trigger_conflict_resolution",
                    domain_conf |-> tagged.domain_conf,
                    evidence_count |-> tagged.evidence_count,
                    decayed |-> decayed.decay_applied,
                    conflict_pending |-> ~same,
                    is_new |-> FALSE]]

dynamic_update(W, c, t) ==
    LET relation == domain_get_relation(W, c.head_canonical_id,
                                        c.tail_canonical_id, c.relation_type)
    IN IF relation = None THEN create_new_relation(W, c, t)
       ELSE update_existing_relation(W, relation, c, t)

\* ConflictAnalyzer
min_evidence_ratio == 3

analyze_direct_conflict(c, relation) ==
    LET sign_conflict == c.polarity # relation.sign /\ c.polarity # "unknown"
        type_conflict == c.relation_type # relation.relation_type
        \* evidence_count / max(freq_count, 1) >= min_evidence_ratio
        by_sign == IF relation.evidence_count
                         >= min_evidence_ratio
                            * (IF c.freq_count > 1 THEN c.freq_count ELSE 1)
                   THEN "to_personal"
                   ELSE IF relation.domain_conf < 4000
                   THEN "to_drift_candidate"
                   ELSE "keep_existing"
    IN [has_conflict |-> sign_conflict \/ type_conflict,
        conflict_type |-> IF type_conflict THEN "relation_type_conflict"
                          ELSE IF sign_conflict THEN "sign_conflict"
                          ELSE "none",
        resolution |-> IF type_conflict THEN "to_personal"
                       ELSE IF sign_conflict THEN by_sign
                       ELSE "keep_existing",
        existing_evidence |-> relation.evidence_count,
        new_evidence |-> c.freq_count,
        path_consistent |-> TRUE]

\* _calculate_path_sign of a one-step path
path_sign(sign) ==
    IF sign = "-" THEN "-" ELSE IF sign = "unknown" THEN "none" ELSE "+"

\* _find_paths / _check_path_consistency.  EntityIds holds two ids, so the
\* breadth-first search from head can only reach tail by a direct relation
\* head -> tail: every path has one step.
check_path_consistency(W, c) ==
    \A rel \in domain_get_all_relations(W) :
        (/\ c.head_canonical_id # c.tail_canonical_id
         /\ rel.head_id = c.head_canonical_id
         /\ rel.tail_id = c.tail_canonical_id
         /\ path_sign(rel.sign) # "none"
         /\ c.polarity # "unknown")
        => path_sign(rel.sign) = c.polarity

conflict_analyze(W, c, relation) ==
    LET direct == analyze_direct_conflict(c, relation)
        consistent == IF direct.resolution # "keep_existing"
                      THEN check_path_consistency(W, c) ELSE TRUE
        pathed == IF consistent THEN direct
                  ELSE [direct EXCEPT !.path_consistent = FALSE,
                                      !.conflict_type = "path_conflict",
                                      !.resolution = "to_personal"]
    IN IF c.semantic_tag \in {"sem_wrong", "sem_spurious"}
       THEN [pathed EXCEPT !.resolution = "to_personal"]
       ELSE pathed

\* DomainDriftDetector
drift_threshold == 6000

calculate_conflict_score(relation) ==
    LET total == relation.evidence_count + relation.conflict_count
    IN IF total < 5 THEN 0
       ELSE (relation.conflict_count * 10000) \div total

calculate_opposite_rate(relation) ==
    LET total == relation.evidence_count + relation.conflict_count
    IN IF total = 0 THEN 0
       ELSE (relation.conflict_count * 10000) \div total

calculate_decay_score(relation) ==
    IF ~relation.decay_applied THEN 0 ELSE 5000

calculate_semantic_score(relation) ==
    IF InSeq("sem_ambiguous", relation.semantic_tags) THEN 8000
    ELSE IF InSeq("sem_weak", relation.semantic_tags) THEN 5000
    ELSE 0

drift_detect(W, relation, t) ==
    LET drift_signal ==
            (30 * calculate_conflict_score(relation)
             + 25 * calculate_opposite_rate(relation)
             + 25 * calculate_decay_score(relation)
             + 20 * calculate_semantic_score(relation)) \div 100
        is_drift == drift_signal >= drift_threshold
    IN [W |-> IF is_drift
              THEN domain_upsert_relation(
                      W, [relation EXCEPT !.drift_flag = TRUE], t, FALSE)
              ELSE W,
        result |-> [relation_id |-> relation.relation_id,
                    drift_signal |-> drift_signal,
                    is_drift |-> is_drift,
                    needs_qa |-> is_drift /\ drift_signal >= drift_threshold + 1000]]

\* DomainPipeline.process
ProcessResult(e, dest, c, sres, dyn, cres, dr) ==
    [raw_edge_id |-> e.raw_edge_id, final_destination |-> dest,
     intake_result |-> c, static_result |-> sres, dynamic_result |-> dyn,
     conflict_result |-> cres, drift_result |-> dr]

Returned(W, to_personal, result) ==
    [W |-> W, raised |-> FALSE, to_personal |-> to_personal,
     result |-> result]

\* variant: a static conflict does not end the processing of the candidate
static_rejects_never(sres) == FALSE

\* if static_result.static_conflict: ... return (final_destination personal)
static_rejects(sres) == sres.static_conflict

\* steps 3 and 4: dynamic update, conflict analysis, drift detection
process_dynamic(W, e, c, sres, t) ==
    LET dyn == dynamic_update(W, c, t)
        relation == IF dyn.result.conflict_pending
                    THEN domain_get_relation_by_id(dyn.W, dyn.result.relation_id)
                    ELSE None
        cres == conflict_analyze(dyn.W, c, relation)
        dr == drift_detect(dyn.W, relation, t)
    IN IF relation = None
       THEN Returned(dyn.W, FALSE,
               ProcessResult(e, "domain", c, sres, dyn.result, None, None))
       ELSE IF cres.resolution = "to_personal"
       THEN Returned(dyn.W, TRUE,
               ProcessResult(e, "personal", c, sres, dyn.result, cres, None))
       ELSE IF cres.resolution = "to_drift_candidate"
       THEN Returned(dr.W, FALSE,
               ProcessResult(e, "domain", c, sres, dyn.result, cres, dr.result))
       ELSE Returned(dyn.W, FALSE,
               ProcessResult(e, "domain", c, sres, dyn.result, cres, None))

\* fails: dynamic_update.update raises for this edge (a storage error)
process(W, rules, e, t, fails) ==
    LET c == intake_process(e)
        sres == static_guard_check(rules, c)
    IN IF c = None
       THEN Returned(W, FALSE,
               ProcessResult(e, IF e.destination = "personal_candidate"
                                THEN "personal" ELSE "log",
                             None, None, None, None, None))
       ELSE IF static_rejects(sres)
       THEN Returned(W, TRUE,
               ProcessResult(e, "personal", c, sres, None, None, None))
       ELSE IF fails
       THEN [W |-> W, raised |-> TRUE, to_personal |-> FALSE, result |-> None]
       ELSE process_dynamic(W, e, c, sres, t)

\* DomainPipeline.process_batch: the loop inside `with transaction() as tx`
RECURSIVE batch_from(_, _, _, _, _, _)
batch_from(S, rules, edges, i, failAt, t) ==
    IF i > Len(edges) \/ S.raised THEN S
    ELSE IF ~edges[i].passed
    THEN batch_from(S, rules, edges, i + 1, failAt, t)
    ELSE CHOOSE last \in
            { batch_from(S2, rules, edges, i + 1, failAt, t) :
                S2 \in { [W |-> out.W,
                          results |-> IF out.raised THEN S.results
                                      ELSE Append(S.results, out.result),
                          added |-> IF out.to_personal
                                    THEN Append(S.added,
                                                out.result.intake_result)
                                    ELSE S.added,
                          raised |-> out.raised] :
                           out \in {process(S.W, rules, edges[i], t,
                                            i = failAt)} } } : TRUE

process_batch(W, rules, edges, failAt, t) ==
    batch_from([W |-> W, results |-> <<>>, added |-> <<>>, raised |-> FALSE],
               rules, edges, 1, failAt, t)

\* ------------------------------------------------------------------------
\* Inputs and initial states of the KG layer
\* ------------------------------------------------------------------------
Edge(id, passed, destination, relevant, head, tail, guess, tag) ==
    [raw_edge_id |-> id, passed |-> passed, destination |-> destination,
     resolved |-> TRUE, relevant |-> relevant, head |-> head, tail |-> tail,
     relation_type |-> "Affect", sign_result |-> "none",
     polarity_guess |-> guess, semantic_tag |-> tag]

\* the edges process is called with
EdgeIn ==
    << Edge("e1", TRUE, "domain_candidate", TRUE, "A", "B", "+", "sem_confident"),
       Edge("e2", TRUE, "domain_candidate", TRUE, "A", "B", "-", "sem_weak"),
       Edge("e3", TRUE, "domain_candidate", TRUE, "B", "A", "+", "unknown"),
       Edge("e4", TRUE, "personal_candidate", TRUE, "A", "B", "-", "sem_weak"),
       Edge("e5", FALSE, "drop_log", TRUE, "A", "B", "+", "sem_wrong"),
       Edge("e6", TRUE, "domain_candidate", FALSE, "A", "B", "?", "unknown") >>

\* the edge lists process_batch is called with
BatchIn ==
    { [i \in 1..Len(q) |-> EdgeIn[q[i]]] :
        q \in {<<1>>, <<3, 2>>, <<2, 3>>, <<3, 5, 1>>, <<4, 6>>,
                 <<2, 2, 2, 2, 2, 2, 2, 2, 2>>} }

\* static_domain.yaml: no rule, or one rule for (A, B)
StaticConfigs ==
    { {}, {[head |-> "A", tail |-> "B", polarity |-> "+",
            relation |-> "Affect"]} }

\* props of the relation A -Affect-> B in data/domain/relations.json
LoadedRel(sign, conf, evidence) ==
    [relation_id |-> "A_Affect_B", sign |-> sign, domain_conf |-> conf,
     evidence_count |-> evidence, last_update |-> 0]

DynamicRelationIn ==
    { [relation_id |-> "DYN_1", head_id |-> "A", head_name |-> "A",
       tail_id |-> "B", tail_name |-> "B", relation_type |-> "Affect",
       sign |-> "-", domain_conf |-> 6000, evidence_count |-> 2,
       conflict_count |-> 0, origin |-> "teacher", drift_flag |-> FALSE,
       semantic_tags |-> <<"sem_confident">>, last_update |-> 0,
       decay_applied |-> FALSE, need_conflict_resolution |-> FALSE] }

PersonalRelationIn ==
    { [relation_id |-> "PER_1", head_id |-> "A", head_name |-> "A",
       tail_id |-> "B", tail_name |-> "B", relation_type |-> "Affect",
       sign |-> "-", user_id |-> "u1", pcs_score |-> 6000,
       personal_weight |-> 6000, personal_label |-> "weak_belief",
       source_type |-> "user_written", occurrence_count |-> 1,
       domain_conflict |-> FALSE, domain_conflict_count |-> 0,
       promotion_candidate |-> FALSE, drift_flag |-> FALSE] }

\* DomainKGAdapter.load_domain_data: entities A and B, relation A -> B
load_domain_data(W, props) ==
    upsert_relation(
        upsert_entity(
            upsert_entity(W, "A", "DomainEntity", [name |-> "A"]),
            "B", "DomainEntity", [name |-> "B"]),
        <<"A", Scoped("domain", "Affect"), "B">>, props)

KGStartWorlds ==
    {EmptyRepo}
    \cup {load_domain_data(EmptyRepo, p) :
            p \in { LoadedRel("+", 5000, 3), LoadedRel("+", 3000, 1),
                    LoadedRel("neutral", 3000, 1), LoadedRel("+", 5000, 1),
                    LoadedRel("+", 5000, 2), LoadedRel("+", 9400, 3) }}
    \cup {personal_upsert_relation(
              load_domain_data(EmptyRepo, LoadedRel("+", 5000, 3)), r, NoTx) :
            r \in PersonalRelationIn}

InitKG ==
    /\ \E W \in KGStartWorlds : entities = W.ents /\ relations = W.rels
    /\ InitTxManager
    /\ staticRules \in StaticConfigs
    /\ InitPipeline
    /\ analyzerConfig = [static_guard |-> TRUE, dynamic_domain |-> TRUE]

\* ------------------------------------------------------------------------
\* Actions of the KG layer
\* ------------------------------------------------------------------------
\* the tx argument of an adapter call: None, or a transaction handle
AdapterTx(t) ==
    \/ t = NoTx
    \/ /\ t \in TxIds
       /\ txState[t] # "unborn"
       /\ txState[t] = "active" => scope[t] = "open"

\* checked: the call reaches the transaction manager with handle t
AdapterCall(t, checked, W, call) ==
    /\ calls < MaxCalls
    /\ calls' = calls + 1
    /\ IF checked /\ t # NoTx /\ ~check_tx_active(t)
       THEN /\ callResult' = NotActive("adapter", t)
            /\ UNCHANGED <<entities, relations, txChanges>>
       ELSE /\ Apply(W)
            /\ callResult' = Ok("adapter", t)
    /\ lastRun' = [op |-> call.op, results |-> <<call>>]
    /\ UNCHANGED <<txState, txError, activeTx, txHistory, scope, caught, pre,
                   staticRules, personalCandidates, batchError,
                   analyzerConfig, promotion_candidates, lastDrift, now, pkg,
                   stats,
                   gateway, deployment>>

DomainUpsertRelation(r, t, force) ==
    /\ AdapterTx(t)
    /\ AdapterCall(t, ~read_only \/ force,
                   domain_upsert_relation(World, r, t, force),
                   [op |-> "upsert_relation", relation |-> r, tx |-> t,
                    tx_state |-> IF t = NoTx THEN "none" ELSE txState[t],
                    force |-> force])

DomainDeleteRelation(head_id, tail_id, relation_type, t, force) ==
    /\ AdapterTx(t)
    /\ AdapterCall(t, ~read_only \/ force,
                   domain_delete_relation(World, head_id, tail_id,
                                          relation_type, t, force),
                   [op |-> "delete_relation", tx |-> t, force |-> force])

PersonalUpsertRelation(r, t) ==
    /\ AdapterTx(t)
    /\ AdapterCall(t, TRUE, personal_upsert_relation(World, r, t),
                   [op |-> "personal_upsert_relation", relation |-> r,
                    tx |-> t])

\* DomainKGAdapter.get_relation(head_id, tail_id, relation_type)
DomainGetRelation(head_id, tail_id, relation_type) ==
    /\ calls < MaxCalls
    /\ calls' = calls + 1
    /\ lastRun' = [op |-> "get_relation",
                   results |-> <<[head_id |-> head_id, tail_id |-> tail_id,
                                  relation_type |-> relation_type,
                                  relation |-> domain_get_relation(
                                      World, head_id, tail_id,
                                      relation_type)]>>]
    /\ UNCHANGED <<entities, relations, txState, txChanges, txError,
                   activeTx, txHistory, scope, caught, callResult, pre,
                   staticRules, personalCandidates, batchError,
                   analyzerConfig, promotion_candidates, lastDrift, now, pkg,
                   stats,
                   gateway, deployment>>

\* DomainPipeline.process(edge, ...) without a transaction
Process(e) ==
    /\ calls < MaxCalls
    /\ calls' = calls + 1
    /\ \E out \in {process(World, staticRules, e, NoTx, FALSE)} :
          /\ Apply(out.W)
          /\ personalCandidates' =
                IF out.to_personal
                THEN Append(personalCandidates, out.result.intake_result)
                ELSE personalCandidates
          /\ lastRun' = [op |-> "process", results |-> <<out.result>>]
    /\ UNCHANGED <<txState, txError, activeTx, txHistory, scope, caught, pre,
                   callResult, staticRules, batchError, analyzerConfig,
                   promotion_candidates, lastDrift, now, pkg,
                   stats,
                   gateway, deployment>>

\* DomainPipeline.process_batch(edges, ...): the transaction is begun, every
\* passed edge is processed, and the transaction is committed, or rolled
\* back when processing edge number failAt raises
ProcessBatch(t, edges, failAt) ==
    /\ calls < MaxCalls
    /\ calls' = calls + 1
    /\ NoScopeOpen
    /\ txState[t] = "unborn"
    /\ \A u \in TxIds : u < t => txState[u] # "unborn"
    /\ \E out \in {process_batch(World, staticRules, edges, failAt, t)} :
          /\ personalCandidates' = personalCandidates \o out.added
          /\ lastRun' = [op |-> "process_batch", results |-> out.results]
          /\ IF out.raised
             THEN /\ Apply(undo_from(out.W, t, Len(out.W.logs[t])))
                  /\ txState' = [txState EXCEPT ![t] = "rolled_back"]
                  /\ txError' = [txError EXCEPT ![t] = "ValueError"]
                  /\ caught' = [caught EXCEPT ![t] = "ValueError"]
                  /\ scope' = [scope EXCEPT ![t] = "exited_error"]
                  /\ batchError' = "ValueError"
             ELSE /\ Apply(out.W)
                  /\ txState' = [txState EXCEPT ![t] = "committed"]
                  /\ scope' = [scope EXCEPT ![t] = "exited_normal"]
                  /\ batchError' = NoError
                  /\ UNCHANGED <<txError, caught>>
    /\ pre' = [pre EXCEPT ![t] = [ents |-> entities, rels |-> relations]]
    /\ txHistory' = Append(txHistory, t)
    /\ UNCHANGED <<activeTx, callResult, staticRules, analyzerConfig,
                   promotion_candidates, lastDrift, now, pkg,
                   stats,
                   gateway, deployment>>


\* the adapters, called directly or inside transaction scopes
NextKG ==
    \/ \E t \in TxIds : BeginSeq(t)
    \/ \E t \in TxIds : ExitNormal(t)
    \/ \E t \in TxIds, e \in Errors : ExitError(t, e)
    \/ \E t \in TxIds : ExitAbandon(t)
    \/ \E r \in DynamicRelationIn, t \in ({NoTx} \cup TxIds), force \in BOOLEAN :
            DomainUpsertRelation(r, t, force)
    \/ \E t \in ({NoTx} \cup TxIds), force \in BOOLEAN :
            DomainDeleteRelation("A", "B", "Affect", t, force)
    \/ \E r \in PersonalRelationIn, t \in ({NoTx} \cup TxIds) :
            PersonalUpsertRelation(r, t)
SpecKG == InitKG /\ [][NextKG]_vars

\* the Domain adapter alone: writes, deletes and reads, in or out of a
\* transaction scope
NextAdapter ==
    \/ \E t \in TxIds : BeginSeq(t)
    \/ \E t \in TxIds : ExitNormal(t)
    \/ \E r \in DynamicRelationIn, t \in ({NoTx} \cup TxIds), force \in BOOLEAN :
            DomainUpsertRelation(r, t, force)
    \/ \E t \in ({NoTx} \cup TxIds), force \in BOOLEAN :
            DomainDeleteRelation("A", "B", "Affect", t, force)
    \/ DomainGetRelation("A", "B", "Affect")
SpecAdapter == InitKG /\ [][NextAdapter]_vars

\* the Domain pipeline, called edge by edge or batch by batch
NextDomain ==
    \/ \E i \in DOMAIN EdgeIn : Process(EdgeIn[i])
    \/ \E t \in TxIds, edges \in BatchIn :
            \E failAt \in 0..Len(edges) : ProcessBatch(t, edges, failAt)
SpecDomain == InitKG /\ [][NextDomain]_vars

C8_PersonalRelationsStay ==
    [][\A k \in RelKeys \ DomainKeys : relations[k].present =>
          \/ relations'[k].present
          \/ \E t \in TxIds : /\ txState[t] = "active"
                               /\ txState'[t] = "rolled_back"
                               /\ ~pre[t].rels[k].present]_vars

\* C9: a candidate for which the static guard reports a conflict gets
\* final_destination "personal", no dynamic update is run for it, and
\* DomainPipeline.process leaves every Domain relation as it was.
C9_StaticConflictGoesToPersonal ==
    [][\A i \in 1..Len(lastRun'.results) :
          (/\ lastRun'.results[i].static_result # None
           /\ lastRun'.results[i].static_result.static_conflict) =>
             /\ lastRun'.results[i].final_destination = "personal"
             /\ lastRun'.results[i].dynamic_result = None
             /\ lastRun'.op = "process" =>
                   \A k \in DomainKeys : relations'[k] = relations[k]]_vars
C9_Witness ==
    /\ lastRun.op = "process"
    /\ lastRun.results[1].static_result # None
    /\ lastRun.results[1].static_result.static_conflict
    /\ relations[<<"A", "domain:Affect", "B">>].present
    /\ Len(personalCandidates) > 0

\* ========================================================================
\* Part 4: the Personal drift analyzer (src/src/personal/drift_promotion.py)
\*
\* The history of a PersonalRelation is the sequence of its entries, each
\* with the day it was appended (timestamp) and its action.
\* ========================================================================
promotion_threshold == 8000
min_occurrences == 3
min_days_span == 7

calculate_pcs_factor(r) ==
    IF r.personal_label = "strong_belief" THEN r.pcs_score
    ELSE IF r.personal_label = "weak_belief" THEN r.pcs_score \div 2
    ELSE 1000

calculate_consistency_factor(r) ==
    IF r.occurrence_count >= 10 THEN 10000
    ELSE IF r.occurrence_count >= 5 THEN 7000
    ELSE IF r.occurrence_count >= 3 THEN 5000
    ELSE 2000

calculate_domain_gap_factor(W, cfg, r) ==
    IF ~cfg.dynamic_domain THEN 5000
    ELSE LET domain_rel == domain_get_relation(W, r.head_id, r.tail_id,
                                               r.relation_type)
         IN IF domain_rel = None THEN 8000
            ELSE IF r.sign # domain_rel.sign
            THEN (IF domain_rel.domain_conf < 5000 THEN 7000 ELSE 2000)
            ELSE 4000

calculate_time_factor(r) ==
    IF Len(r.history) < 2 THEN 2000
    ELSE LET days_span == r.history[Len(r.history)].timestamp
                          - r.history[1].timestamp
         IN IF days_span >= 30 THEN 10000
            ELSE IF days_span >= min_days_span THEN 6000
            ELSE 3000

check_static_conflict(rules, cfg, r) ==
    IF ~cfg.static_guard THEN FALSE
    ELSE is_static_relation(rules, r.head_id, r.tail_id)

analyze(W, rules, cfg, r) ==
    LET pcs_factor == calculate_pcs_factor(r)
        consistency_factor == calculate_consistency_factor(r)
        domain_gap_factor == calculate_domain_gap_factor(W, cfg, r)
        time_factor == calculate_time_factor(r)
        drift_signal == (30 * pcs_factor + 30 * consistency_factor
                         + 20 * domain_gap_factor + 20 * time_factor) \div 100
        static_conflict == check_static_conflict(rules, cfg, r)
        is_promotion_candidate ==
            /\ drift_signal >= promotion_threshold
            /\ ~static_conflict
            /\ r.occurrence_count >= min_occurrences
    IN [relation_id |-> r.relation_id, drift_signal |-> drift_signal,
        is_promotion_candidate |-> is_promotion_candidate,
        static_conflict |-> static_conflict,
        can_promote |-> is_promotion_candidate,
        promotion_reason |-> IF is_promotion_candidate THEN "drift_signal"
                             ELSE IF static_conflict
                             THEN "static_domain_conflict" ELSE "none"]

AnalyzeIn ==
    { [relation_id |-> "PKG_" \o p[1] \o "_" \o p[2], head_id |-> p[1],
       head_name |-> p[1], tail_id |-> p[2], tail_name |-> p[2],
       relation_type |-> "Affect", sign |-> "-", pcs_score |-> pcs,
       personal_weight |-> pcs,
       personal_label |-> label, occurrence_count |-> occ,
       promotion_candidate |-> FALSE,
       history |-> [i \in 1..Len(h) |->
                      [timestamp |-> h[i], action |-> "update"]]] :
        p \in {<<"A", "B">>, <<"B", "A">>},
        pcs \in {4000, 10000},
        label \in {"strong_belief", "weak_belief", "noisy_hypothesis"},
        occ \in {2, 3, 10},
        h \in {<<0>>, <<0, 0>>, <<-30, -20, -10, 0>>} }

\* PersonalDriftAnalyzer.analyze(relation)
Analyze(r) ==
    /\ calls < MaxCalls
    /\ calls' = calls + 1
    /\ LET res == analyze(World, staticRules, analyzerConfig, r)
       IN /\ promotion_candidates' =
                IF res.is_promotion_candidate
                THEN Append(promotion_candidates, r.relation_id)
                ELSE promotion_candidates
          /\ lastDrift' = [present |-> TRUE, relation |-> r, result |-> res]
    /\ UNCHANGED <<entities, relations, txState, txChanges, txError, activeTx,
                   txHistory, scope, caught, callResult, pre, staticRules,
                   personalCandidates, lastRun, batchError, analyzerConfig,
                   now, pkg,
                   stats,
                   gateway, deployment>>

\* PersonalDriftAnalyzer(pkg, static_guard=None, dynamic_domain=None): each
\* collaborator is given or left out
InitDrift ==
    /\ \E W \in KGStartWorlds : entities = W.ents /\ relations = W.rels
    /\ InitTxManager
    /\ staticRules \in StaticConfigs
    /\ InitPipeline
    /\ analyzerConfig \in [static_guard : BOOLEAN, dynamic_domain : BOOLEAN]

NextDrift == \E r \in AnalyzeIn : Analyze(r)
SpecDrift == InitDrift /\ [][NextDrift]_vars

\* C10: the relation analysed last is a promotion candidate exactly when
\* its drift_signal is at least 0.8, it occurred at least 3 times and no
\* static rule exists for its (head, tail) key, whatever collaborators the
\* analyzer was built with.
C10_CandidateIffNoStaticRule ==
    lastDrift.present =>
        (lastDrift.result.is_promotion_candidate <=>
            /\ lastDrift.result.drift_signal >= 8000
            /\ lastDrift.relation.occurrence_count >= 3
            /\ ~is_static_relation(staticRules, lastDrift.relation.head_id,
                                   lastDrift.relation.tail_id))

\* ========================================================================
\* Part 5: Dynamic Domain updates and promotion, called directly
\*         (DynamicDomainUpdate.update, PersonalDriftAnalyzer.promote_to_domain)
\* ========================================================================
MaxDays == 60       \* the clock stops here

\* time passes: one decay period
Tick ==
    /\ now + decay_days <= MaxDays
    /\ now' = now + decay_days
    /\ UNCHANGED <<entities, relations, txState, txChanges, txError, activeTx,
                   txHistory, scope, caught, callResult, pre, calls,
                   staticRules, personalCandidates, lastRun, batchError,
                   analyzerConfig, promotion_candidates, lastDrift, pkg,
                   stats,
                   gateway, deployment>>

\* DynamicDomainUpdate.update(candidate)
Update(c) ==
    /\ calls < MaxCalls
    /\ calls' = calls + 1
    /\ \E out \in {dynamic_update(World, c, NoTx)} :
          /\ Apply(out.W)
          /\ lastRun' = [op |-> "update",
                         results |-> <<[candidate |-> c,
                                        dynamic_result |-> out.result]>>]
    /\ UNCHANGED <<txState, txError, activeTx, txHistory, scope, caught,
                   callResult, pre, staticRules, personalCandidates,
                   batchError, analyzerConfig, promotion_candidates,
                   lastDrift, now, pkg,
                   stats,
                   gateway, deployment>>

\* P: the relations of the PKG, Q: _promotion_candidates
promote_to_domain(W, rules, cfg, P, Q, relation_id) ==
    IF relation_id \notin DOMAIN P
    THEN [ok |-> FALSE, W |-> W, pkg |-> P, candidates |-> Q,
          dynamic_result |-> None]
    ELSE IF check_static_conflict(rules, cfg, P[relation_id])
    THEN [ok |-> FALSE, W |-> W, pkg |-> P, candidates |-> Q,
          dynamic_result |-> None]
    ELSE LET relation == P[relation_id]
             candidate ==
                 [raw_edge_id |-> "PROMOTED_" \o relation_id,
                  head_canonical_id |-> relation.head_id,
                  head_canonical_name |-> relation.head_name,
                  tail_canonical_id |-> relation.tail_id,
                  tail_canonical_name |-> relation.tail_name,
                  relation_type |-> relation.relation_type,
                  polarity |-> relation.sign,
                  semantic_tag |-> "sem_confident",
                  freq_count |-> 1,
                  evidence_source |-> "personal_promotion"]
             result == dynamic_update(W, candidate, NoTx)
             \* list.remove: the first occurrence goes
             first == CHOOSE i \in 1..Len(Q) :
                         Q[i] = relation_id
                         /\ \A j \in 1..(i - 1) : Q[j] # relation_id
         IN [ok |-> TRUE, W |-> result.W,
             pkg |-> [P EXCEPT ![relation_id] =
                        [@ EXCEPT !.promotion_candidate = TRUE,
                                  !.history = Append(@,
                                     [timestamp |-> now,
                                      action |-> "promoted_to_domain",
                                      domain_relation_id |->
                                          result.result.relation_id])]],
             candidates |-> IF InSeq(relation_id, Q)
                            THEN SubSeq(Q, 1, first - 1)
                                 \o SubSeq(Q, first + 1, Len(Q))
                            ELSE Q,
             dynamic_result |-> result.result]

\* PersonalDriftAnalyzer.promote_to_domain(relation_id, dynamic_domain)
PromoteToDomain(relation_id) ==
    /\ calls < MaxCalls
    /\ calls' = calls + 1
    /\ \E out \in {promote_to_domain(World, staticRules, analyzerConfig, pkg,
                                     promotion_candidates, relation_id)} :
          /\ Apply(out.W)
          /\ pkg' = out.pkg
          /\ promotion_candidates' = out.candidates
          /\ lastRun' = [op |-> "promote_to_domain",
                         results |-> <<[relation_id |-> relation_id,
                                        ok |-> out.ok,
                                        dynamic_result |-> out.dynamic_result]>>]
    /\ UNCHANGED <<txState, txError, activeTx, txHistory, scope, caught,
                   callResult, pre, staticRules, personalCandidates,
                   batchError, analyzerConfig, lastDrift, now, stats,
                   gateway, deployment>>

\* the PKG holds strong, long-lived beliefs: A -> B alone, or both directions
PkgIn ==
    { [id \in ids |->
         CHOOSE r \in AnalyzeIn :
            /\ r.relation_id = id /\ r.pcs_score = 10000
            /\ r.personal_label = "strong_belief"
            /\ r.occurrence_count = 10 /\ Len(r.history) = 4] :
        ids \in {{"PKG_A_B"}, {"PKG_A_B", "PKG_B_A"}} }

InitDynamic ==
    /\ \E W \in KGStartWorlds : entities = W.ents /\ relations = W.rels
    /\ InitTxManager
    /\ staticRules \in StaticConfigs
    /\ personalCandidates = <<>>
    /\ lastRun = [op |-> "none", results |-> <<>>]
    /\ batchError = NoError
    /\ analyzerConfig \in [static_guard : BOOLEAN, dynamic_domain : {TRUE}]
    /\ promotion_candidates = <<>>
    /\ lastDrift = None
    /\ now = 0
    /\ pkg \in PkgIn
    /\ stats = [total |-> 0, schema_passed |-> 0, sign_passed |-> 0,
                semantic_passed |-> 0, domain_candidate |-> 0,
                personal_candidate |-> 0, dropped |-> 0,
                queries_processed |-> 0, paths_used_total |-> 0]
    /\ gateway = None
    /\ deployment = [bundles |-> <<>>, active_bundle |-> 0,
                     deployment_history |-> <<>>]

NextDynamic ==
    \/ Tick
    \/ \E i \in 1..3 : Update(intake_process(EdgeIn[i]))
    \/ \E id \in {"PKG_A_B", "PKG_B_A"} : PromoteToDomain(id)
SpecDynamic == InitDynamic /\ [][NextDynamic]_vars

\* the Domain key a Personal relation would be promoted to
DomainKeyOf(r) == <<r.head_id, Scoped("domain", r.relation_type), r.tail_id>>

\* C11: promote_to_domain on a Personal relation whose key is absent from
\* Domain, when it reports success, leaves Domain holding that key with
\* evidence_count 1 and domain_conf 0.5, and the Personal relation still
\* exists with a promoted_to_domain event appended to its history.
C11_PromotionCreatesDomainRelation ==
    [][\A id \in DOMAIN pkg :
          (/\ calls' = calls + 1
           /\ lastRun'.op = "promote_to_domain"
           /\ lastRun'.results[1].relation_id = id
           /\ lastRun'.results[1].ok
           /\ ~relations[DomainKeyOf(pkg[id])].present)
          => /\ relations'[DomainKeyOf(pkg[id])].present
             /\ relations'[DomainKeyOf(pkg[id])].props.evidence_count = 1
             /\ relations'[DomainKeyOf(pkg[id])].props.domain_conf = initial_conf
             /\ id \in DOMAIN pkg'
             /\ pkg'[id].history[Len(pkg'[id].history)].action
                   = "promoted_to_domain"]_vars

\* C12: N same-key, same-sign candidates sent through
\* DynamicDomainUpdate.update from a Domain without the relation leave a
\* relation with evidence_count N: the first creates it with evidence_count
\* 1, each later one reports is_new false and adds one.
C12_RepeatedEvidenceAccumulates ==
    [][(/\ calls' = calls + 1
        /\ lastRun.op = "update"
        /\ lastRun'.op = "update"
        /\ lastRun.results[1].dynamic_result.is_new
        /\ lastRun'.results[1].candidate.head_canonical_id
              = lastRun.results[1].candidate.head_canonical_id
        /\ lastRun'.results[1].candidate.tail_canonical_id
              = lastRun.results[1].candidate.tail_canonical_id
        /\ lastRun'.results[1].candidate.relation_type
              = lastRun.results[1].candidate.relation_type
        /\ lastRun'.results[1].candidate.polarity
              = lastRun.results[1].candidate.polarity)
       => /\ lastRun.results[1].dynamic_result.evidence_count = 1
          /\ ~lastRun'.results[1].dynamic_result.is_new
          /\ lastRun'.results[1].dynamic_result.evidence_count = 2]_vars

C14_UpsertThenGetRelation ==
    [][(/\ calls' = calls + 1
        /\ lastRun.op = "upsert_relation"
        /\ ~lastRun.results[1].force
        /\ lastRun.results[1].tx_state \in {"none", "active"}
        /\ \/ lastRun.results[1].tx = NoTx
           \/ txState'[lastRun.results[1].tx] \in {"active", "committed"}
        /\ lastRun'.op = "get_relation"
        /\ lastRun'.results[1].head_id = lastRun.results[1].relation.head_id
        /\ lastRun'.results[1].tail_id = lastRun.results[1].relation.tail_id
        /\ lastRun'.results[1].relation_type
              = lastRun.results[1].relation.relation_type)
       => /\ lastRun'.results[1].relation # None
          /\ lastRun'.results[1].relation.sign
                = lastRun.results[1].relation.sign
          /\ lastRun'.results[1].relation.domain_conf
                = lastRun.results[1].relation.domain_conf]_vars

C16_DecayAppliedAfterDecayDays ==
    [][\A k \in DomainKeys :
          (/\ calls' = calls + 1
           /\ lastRun'.op = "update"
           /\ k = <<lastRun'.results[1].candidate.head_canonical_id,
                    Scoped("domain", lastRun'.results[1].candidate.relation_type),
                    lastRun'.results[1].candidate.tail_canonical_id>>
           /\ relations[k].present
           /\ now - relations[k].props.last_update >= decay_days)
          => lastRun'.results[1].dynamic_result.decayed]_vars

\* C17: for a sign conflict the analyzer takes r = new_evidence /
\* max(existing_evidence, 1): TO_PERSONAL if r >= min_evidence_ratio, else
\* TO_DRIFT if the existing domain_conf < 0.4, else KEEP_EXISTING (a
\* resolution other than KEEP_EXISTING becomes TO_PERSONAL when the path
\* check fails).
C17_SignConflictResolution ==
    [][\A i \in 1..Len(lastRun'.results) :
          LET res == lastRun'.results[i]
              cres == res.conflict_result
              k == <<res.intake_result.head_canonical_id,
                     Scoped("domain", res.intake_result.relation_type),
                     res.intake_result.tail_canonical_id>>
              existing == IF cres.existing_evidence > 1
                          THEN cres.existing_evidence ELSE 1
          IN (/\ lastRun'.op \in {"process", "process_batch"}
              /\ res.conflict_result # None
              /\ cres.conflict_type \in {"sign_conflict", "path_conflict"}
              /\ res.intake_result.semantic_tag
                    \notin {"sem_wrong", "sem_spurious"})
             => IF cres.new_evidence >= min_evidence_ratio * existing
                THEN cres.resolution = "to_personal"
                ELSE IF relations'[k].props.domain_conf < 4000
                THEN cres.resolution \in {"to_drift_candidate", "to_personal"}
                ELSE cres.resolution = "keep_existing"]_vars

\* C18: from a Domain relation (A, B, Affect, +) with evidence_count 2, nine
\* (A, B, -) candidates ingested one after another: the 4th is the first
\* whose conflict resolution is TO_PERSONAL, every candidate from the 4th on
\* is routed to Personal, and the Domain relation keeps sign + with
\* conflict_count growing.
C18_NineOpposingCandidates ==
    [][(/\ calls' = calls + 1
        /\ lastRun'.op = "process_batch"
        /\ batchError' = NoError
        /\ Len(lastRun'.results) = 9
        /\ \A i \in 1..9 :
              /\ lastRun'.results[i].intake_result # None
              /\ lastRun'.results[i].intake_result.head_canonical_id = "A"
              /\ lastRun'.results[i].intake_result.tail_canonical_id = "B"
              /\ lastRun'.results[i].intake_result.polarity = "-"
              /\ ~lastRun'.results[i].static_result.static_conflict
        /\ relations[<<"A", Scoped("domain", "Affect"), "B">>].present
        /\ relations[<<"A", Scoped("domain", "Affect"), "B">>].props.sign = "+"
        /\ relations[<<"A", Scoped("domain", "Affect"), "B">>].props
              .evidence_count = 2)
       => /\ \A i \in 1..3 :
                lastRun'.results[i].conflict_result # None
                => lastRun'.results[i].conflict_result.resolution
                      # "to_personal"
          /\ lastRun'.results[4].conflict_result # None
          /\ lastRun'.results[4].conflict_result.resolution = "to_personal"
          /\ \A i \in 4..9 : lastRun'.results[i].final_destination = "personal"
          /\ relations'[<<"A", Scoped("domain", "Affect"), "B">>].present
          /\ relations'[<<"A", Scoped("domain", "Affect"), "B">>].props.sign
                = "+"
          /\ Get(relations'[<<"A", Scoped("domain", "Affect"), "B">>].props,
                 "conflict_count", 0)
                > Get(relations[<<"A", Scoped("domain", "Affect"), "B">>].props,
                      "conflict_count", 0)]_vars

\* ========================================================================
\* Part 6: Validation (SignValidator, ConfidenceFilter, ValidationPipeline)
\*   confidences and scores in 1/100, combined_conf in 1/1000 (the weights
\*   0.4, 0.3, 0.3 are 4, 3, 3); "none" is the None of an Optional[str]
\* ========================================================================
domain_threshold == 550
personal_threshold == 350

\* SignValidator._determine_final_sign
determine_final_sign(student_polarity, pattern_polarity, domain_polarity, llm_polarity, conflict_with_static, static_certainty) ==
    LET given == <<student_polarity, pattern_polarity, domain_polarity,
                   llm_polarity>>
        sources == SelectSeq(given, LAMBDA p : p \notin {"none", "unknown"})
        count(p) == Cardinality({i \in 1..Len(sources) : sources[i] = p})
        \* Counter(sources).most_common(1): the first of the most frequent
        most_common ==
            sources[CHOOSE i \in 1..Len(sources) :
                       /\ \A j \in 1..Len(sources) :
                             count(sources[j]) <= count(sources[i])
                       /\ \A j \in 1..(i - 1) :
                             count(sources[j]) < count(sources[i])]
        Sign(polarity, tag, score) ==
            [polarity_final |-> polarity, sign_tag |-> tag,
             sign_consistency_score |-> score]
    IN IF conflict_with_static /\ static_certainty >= 90
       THEN Sign(IF domain_polarity = "none" THEN "unknown"
                 ELSE domain_polarity, "suspect", 30)
       ELSE IF Len(sources) = 0
       THEN Sign("unknown", "unknown", 0)
       ELSE IF Cardinality({sources[i] : i \in 1..Len(sources)}) = 1
       THEN Sign(sources[1], "confident", 90)
       ELSE IF domain_polarity # "none"
       THEN IF 2 * count(domain_polarity) >= Len(sources)
            THEN Sign(domain_polarity, "confident", 80)
            ELSE Sign(domain_polarity, "ambiguous", 60)
       ELSE IF 2 * count(most_common) > Len(sources)
       THEN Sign(most_common, "ambiguous", 50)
       ELSE Sign(IF student_polarity = "none" THEN "unknown"
                 ELSE student_polarity, "ambiguous", 40)

\* variant: a suspect sign tag does not reject the edge
confidence_filter_any_sign(edge, schema_valid, sign_result, semantic_result) ==
    LET combined_conf == 4 * edge.student_conf
                         + 3 * sign_result.sign_consistency_score
                         + 3 * semantic_result.semantic_confidence
        admitted == /\ schema_valid
                    /\ semantic_result.semantic_tag
                          \in {"sem_confident", "sem_weak", "sem_ambiguous"}
    IN [edge_id |-> edge.raw_edge_id,
        validation_passed |-> admitted /\ combined_conf >= personal_threshold,
        destination |-> IF admitted /\ combined_conf >= domain_threshold
                        THEN "domain_candidate"
                        ELSE IF admitted /\ combined_conf >= personal_threshold
                        THEN "personal_candidate" ELSE "drop_log",
        combined_conf |-> combined_conf,
        student_conf |-> edge.student_conf,
        sign_score |-> sign_result.sign_consistency_score,
        semantic_conf |-> semantic_result.semantic_confidence,
        schema_valid |-> schema_valid, sign_result |-> sign_result,
        semantic_result |-> semantic_result,
        rejection_reason |-> "none"]

\* ConfidenceFilter.filter
confidence_filter(edge, schema_valid, sign_result, semantic_result) ==
    LET rejection_reasons ==
            (IF ~schema_valid THEN <<"schema_invalid">> ELSE <<>>)
            \o (IF sign_result.sign_tag \notin {"confident", "ambiguous"}
                THEN <<"sign_tag:" \o sign_result.sign_tag>> ELSE <<>>)
            \o (IF semantic_result.semantic_tag
                     \notin {"sem_confident", "sem_weak", "sem_ambiguous"}
                THEN <<"semantic_tag:" \o semantic_result.semantic_tag>>
                ELSE <<>>)
        combined_conf == 4 * edge.student_conf
                         + 3 * sign_result.sign_consistency_score
                         + 3 * semantic_result.semantic_confidence
        Result(passed, destination, reason) ==
            [edge_id |-> edge.raw_edge_id, validation_passed |-> passed,
             destination |-> destination, combined_conf |-> combined_conf,
             student_conf |-> edge.student_conf,
             sign_score |-> sign_result.sign_consistency_score,
             semantic_conf |-> semantic_result.semantic_confidence,
             schema_valid |-> schema_valid, sign_result |-> sign_result,
             semantic_result |-> semantic_result,
             rejection_reason |-> reason]
    IN IF rejection_reasons # <<>>
       THEN Result(FALSE, "drop_log", rejection_reasons[1])
       ELSE IF combined_conf >= domain_threshold
       THEN Result(TRUE, "domain_candidate", "none")
       ELSE IF combined_conf >= personal_threshold
       THEN Result(TRUE, "personal_candidate", "none")
       ELSE Result(FALSE, "drop_log", "low_confidence")

\* variant: a self-loop is no schema error
schema_validate_allows_self_loop(edge, resolved_entities) ==
    LET has_required == \A f \in {edge.head_entity_id, edge.tail_entity_id,
                                   edge.relation_type, edge.fragment_id} :
                           f # ""
        relation_valid == edge.relation_type \in RelTypeNames
        entity_pair_valid == /\ edge.head_entity_id \in resolved_entities
                             /\ edge.tail_entity_id \in resolved_entities
    IN [schema_valid |-> has_required /\ relation_valid /\ entity_pair_valid,
        no_self_loop |-> TRUE]

\* SchemaValidator.validate; resolved_entities: the ids of the resolved
\* entities (no forbidden type combination is configured)
schema_validate(edge, resolved_entities) ==
    LET has_required == \A f \in {edge.head_entity_id, edge.tail_entity_id,
                                   edge.relation_type, edge.fragment_id} :
                           f # ""
        relation_valid == edge.relation_type \in RelTypeNames
        entity_pair_valid == /\ edge.head_entity_id \in resolved_entities
                             /\ edge.tail_entity_id \in resolved_entities
        no_self_loop == edge.head_entity_id # edge.tail_entity_id
    IN [schema_valid |-> /\ has_required /\ relation_valid
                         /\ entity_pair_valid /\ no_self_loop,
        no_self_loop |-> no_self_loop]

\* ValidationPipeline.validate, given what the sign patterns, the static
\* rule map, the LLM and the semantic validator answer for the edge
validate(edge, resolved_entities, pattern_polarity, static_rule, llm_answer, semantic_result) ==
    LET schema_valid == schema_validate(edge, resolved_entities).schema_valid
        \* SignValidator._normalize_polarity
        student_polarity ==
            CASE edge.polarity_guess = "POSITIVE" -> "+"
              [] edge.polarity_guess = "NEGATIVE" -> "-"
              [] edge.polarity_guess = "NEUTRAL" -> "neutral"
              [] OTHER -> "unknown"
        domain_polarity == IF static_rule = None THEN "none"
                           ELSE static_rule.polarity
        conflict_with_static == /\ static_rule # None
                                /\ student_polarity # domain_polarity
                                /\ student_polarity # "unknown"
        \* the LLM is asked only when no pattern matched
        llm_polarity == IF pattern_polarity = "none" THEN llm_answer
                        ELSE "none"
        sign == determine_final_sign(
                    student_polarity, pattern_polarity, domain_polarity,
                    llm_polarity, conflict_with_static,
                    IF static_rule = None THEN 0 ELSE static_rule.certainty)
        sign_result ==
            [polarity_final |-> sign.polarity_final,
             sign_tag |-> sign.sign_tag,
             sign_consistency_score |-> sign.sign_consistency_score,
             student_polarity |-> student_polarity,
             pattern_polarity |-> pattern_polarity,
             domain_polarity |-> domain_polarity,
             llm_polarity |-> llm_polarity,
             conflict_with_static |-> conflict_with_static]
    IN IF ~schema_valid
       THEN [edge_id |-> edge.raw_edge_id, validation_passed |-> FALSE,
             destination |-> "drop_log", combined_conf |-> 0,
             student_conf |-> 0, sign_score |-> 0, semantic_conf |-> 0,
             schema_valid |-> FALSE, sign_result |-> None,
             semantic_result |-> None, rejection_reason |-> "schema_invalid"]
       ELSE confidence_filter(edge, TRUE, sign_result, semantic_result)

Validate(edge, resolved_entities, pattern_polarity, static_rule, llm_answer, semantic_result) ==
    /\ calls < MaxCalls
    /\ calls' = calls + 1
    /\ \E out \in {validate(edge, resolved_entities, pattern_polarity,
                            static_rule, llm_answer, semantic_result)} :
          /\ lastRun' = [op |-> "validate",
                         results |-> <<[edge |-> edge,
                                        resolved_entities |-> resolved_entities,
                                        static_rule |-> static_rule,
                                        validation |-> out]>>]
          /\ stats' =
                [stats EXCEPT
                   !.total = @ + 1,
                   !.schema_passed = IF out.schema_valid THEN @ + 1 ELSE @,
                   !.sign_passed = IF out.schema_valid THEN @ + 1 ELSE @,
                   !.semantic_passed = IF out.schema_valid THEN @ + 1 ELSE @,
                   !.domain_candidate =
                       IF out.destination = "domain_candidate"
                       THEN @ + 1 ELSE @,
                   !.personal_candidate =
                       IF out.destination = "personal_candidate"
                       THEN @ + 1 ELSE @,
                   !.dropped = IF out.destination = "drop_log"
                               THEN @ + 1 ELSE @]
    /\ UNCHANGED <<entities, relations, txState, txChanges, txError,
                   activeTx, txHistory, scope, caught, callResult, pre,
                   staticRules, personalCandidates, batchError,
                   analyzerConfig, promotion_candidates, lastDrift, now, pkg,
                   gateway, deployment>>

\* raw edges, and the answers of the validators' oracles
ValidateIn ==
    [edge : { [raw_edge_id |-> "R1", fragment_id |-> "F1",
               head_entity_id |-> ends[1], tail_entity_id |-> ends[2],
               relation_type |-> ends[3], polarity_guess |-> guess,
               student_conf |-> conf] :
                 ends \in {<<"E1", "E2", "Affect">>, <<"E1", "E1", "Affect">>,
                           <<"E1", "E2", "Bogus">>},
                 guess \in {"POSITIVE", "NEGATIVE", "UNKNOWN"},
                 conf \in {20, 70} },
     resolved_entities : {{"E1", "E2"}, {"E1"}},
     sign_oracles : {[pattern |-> "none", llm |-> "none"],
                     [pattern |-> "none", llm |-> "+"],
                     [pattern |-> "-", llm |-> "+"]},
     static_rule : {None,
                    [present |-> TRUE, polarity |-> "+", certainty |-> 80],
                    [present |-> TRUE, polarity |-> "+", certainty |-> 95]},
     semantic_result : {[semantic_tag |-> "sem_confident",
                         semantic_confidence |-> 85],
                        [semantic_tag |-> "sem_weak",
                         semantic_confidence |-> 45],
                        [semantic_tag |-> "sem_wrong",
                         semantic_confidence |-> 20]}]

NextValidation ==
    \E in \in ValidateIn :
        Validate(in.edge, in.resolved_entities, in.sign_oracles.pattern,
                 in.static_rule, in.sign_oracles.llm, in.semantic_result)
SpecValidation == Init /\ [][NextValidation]_vars

\* C19: validation gives destination DOMAIN_CANDIDATE or PERSONAL_CANDIDATE
\* iff the schema is valid, the sign tag is confident or ambiguous, the
\* semantic tag is sem_confident, sem_weak or sem_ambiguous, and combined >=
\* personal_threshold; an admitted edge is a DOMAIN_CANDIDATE iff combined
\* >= domain_threshold; every other edge is DROP_LOG.
C19_AdmissionRule ==
    lastRun.op = "validate" =>
       LET v == lastRun.results[1].validation
           combined ==
               4 * lastRun.results[1].edge.student_conf
               + 3 * v.sign_result.sign_consistency_score
               + 3 * v.semantic_result.semantic_confidence
           admitted ==
               /\ v.schema_valid
               /\ v.sign_result.sign_tag \in {"confident", "ambiguous"}
               /\ v.semantic_result.semantic_tag
                     \in {"sem_confident", "sem_weak", "sem_ambiguous"}
               /\ combined >= personal_threshold
       IN /\ v.destination \in {"domain_candidate", "personal_candidate"}
                <=> admitted
          /\ v.destination = "domain_candidate"
                <=> (admitted /\ combined >= domain_threshold)
          /\ ~admitted => v.destination = "drop_log"
          /\ v.validation_passed <=> admitted

\* an edge was admitted below the domain threshold
C19_Witness ==
    /\ lastRun.op = "validate"
    /\ lastRun.results[1].validation.destination = "personal_candidate"
    /\ lastRun.results[1].validation.sign_result.sign_tag = "ambiguous"

\* C20: the sign tag is confident only when all the oracles that produced a
\* sign (student, pattern, static domain, LLM) agree; a static rule with
\* certainty >= 0.9 that contradicts the student's polarity gives suspect
\* with the static polarity; oracles that disagree otherwise give
\* ambiguous; no oracle producing a sign gives unknown.
C20_SignTagDecision ==
    (lastRun.op = "validate" /\ lastRun.results[1].validation.schema_valid) =>
       LET sr == lastRun.results[1].validation.sign_result
           rule == lastRun.results[1].static_rule
           signs == {sr.student_polarity, sr.pattern_polarity,
                     sr.domain_polarity, sr.llm_polarity}
                    \ {"none", "unknown"}
           overruled == /\ rule # None
                        /\ rule.certainty >= 90
                        /\ sr.student_polarity \notin {"none", "unknown"}
                        /\ sr.student_polarity # rule.polarity
       IN /\ sr.sign_tag = "confident" => Cardinality(signs) = 1
          /\ overruled => /\ sr.sign_tag = "suspect"
                          /\ sr.polarity_final = rule.polarity
          /\ (~overruled /\ Cardinality(signs) > 1)
                => sr.sign_tag = "ambiguous"
          /\ signs = {} => sr.sign_tag = "unknown"

\* C21: a raw edge whose head entity id equals its tail entity id gets
\* destination DROP_LOG and validation_passed false, whatever its
\* confidence, polarity, relation type or resolved entities.
C21_SelfLoopDropped ==
    (/\ lastRun.op = "validate"
     /\ lastRun.results[1].edge.head_entity_id
           = lastRun.results[1].edge.tail_entity_id)
    => /\ lastRun.results[1].validation.destination = "drop_log"
       /\ ~lastRun.results[1].validation.validation_passed

\* a self-loop with a valid relation type, resolved entities, an agreeing
\* static rule and high confidence was validated
C21_Witness ==
    /\ lastRun.op = "validate"
    /\ lastRun.results[1].edge.head_entity_id
          = lastRun.results[1].edge.tail_entity_id
    /\ lastRun.results[1].edge.relation_type = "Affect"
    /\ lastRun.results[1].edge.student_conf = 70
    /\ lastRun.results[1].resolved_entities = {"E1", "E2"}
    /\ lastRun.results[1].validation.rejection_reason = "schema_invalid"

\* ========================================================================
\* Part 7: the Personal KG (PersonalKGUpdate, PersonalPipeline)
\* ========================================================================
\* PersonalKGUpdate.update(candidate, pcs_result); P: _relations.  The
\* index _relation_index holds the key of every relation of P (nothing is
\* ever removed from either).
pkg_update(P, candidate, pcs_result) ==
    LET hits == {id \in DOMAIN P :
                    /\ P[id].head_id = candidate.head_canonical_id
                    /\ P[id].tail_id = candidate.tail_canonical_id
                    /\ P[id].relation_type = candidate.relation_type}
        \* _calculate_weight
        new_weight ==
            IF pcs_result.personal_label = "strong_belief"
            THEN pcs_result.pcs_score
            ELSE IF pcs_result.personal_label = "weak_belief"
            THEN (pcs_result.pcs_score * 5) \div 10
            ELSE (pcs_result.pcs_score * 1) \div 10
        \* generate_id("PKG"): a fresh id; one per relation key in the model
        new_id == "PKG_" \o candidate.head_canonical_id \o "_"
                         \o candidate.tail_canonical_id
        created ==
            [relation_id |-> new_id,
             head_id |-> candidate.head_canonical_id,
             head_name |-> candidate.head_canonical_name,
             tail_id |-> candidate.tail_canonical_id,
             tail_name |-> candidate.tail_canonical_name,
             relation_type |-> candidate.relation_type,
             sign |-> candidate.polarity,
             pcs_score |-> pcs_result.pcs_score,
             personal_weight |-> new_weight,
             personal_label |-> pcs_result.personal_label,
             occurrence_count |-> 1,
             promotion_candidate |-> FALSE,
             history |-> <<[timestamp |-> now, action |-> "created",
                            pcs_score |-> pcs_result.pcs_score]>>]
    IN IF hits = {}
       THEN [relation_id |-> new_id, is_new |-> TRUE,
             pkg |-> [id \in DOMAIN P \cup {new_id} |->
                        IF id = new_id THEN created ELSE P[id]]]
       ELSE LET id == CHOOSE h \in hits : TRUE
            IN [relation_id |-> id, is_new |-> FALSE,
                pkg |-> [P EXCEPT ![id] =
                   [@ EXCEPT
                      !.occurrence_count = @ + 1,
                      !.personal_weight = (@ * 7 + new_weight * 3) \div 10,
                      !.pcs_score = (@ * 7 + pcs_result.pcs_score * 3) \div 10,
                      !.personal_label =
                          IF pcs_result.pcs_score >= 7000
                          THEN "strong_belief"
                          ELSE IF pcs_result.pcs_score >= 4000
                          THEN "weak_belief" ELSE "noisy_hypothesis",
                      !.history = Append(@,
                          [timestamp |-> now, action |-> "updated",
                           pcs_score |-> pcs_result.pcs_score,
                           occurrence |-> P[id].occurrence_count + 1])]]]

PkgUpdate(candidate, pcs_result) ==
    /\ calls < MaxCalls
    /\ calls' = calls + 1
    /\ \E out \in {pkg_update(pkg, candidate, pcs_result)} :
          /\ pkg' = out.pkg
          /\ lastRun' = [op |-> "pkg_update",
                         results |-> <<[relation_id |-> out.relation_id,
                                        is_new |-> out.is_new,
                                        pcs_result |-> pcs_result]>>]
    /\ UNCHANGED <<entities, relations, txState, txChanges, txError,
                   activeTx, txHistory, scope, caught, callResult, pre,
                   staticRules, personalCandidates, batchError,
                   analyzerConfig, promotion_candidates, lastDrift, now,
                   stats,
                   gateway, deployment>>

RECURSIVE promote_from(_, _, _, _, _, _, _)
\* the loop of PersonalPipeline.promote_candidates over todo, the list
\* get_promotion_candidates returned
promote_from(W, rules, cfg, P, Q, todo, results) ==
    IF todo = <<>> THEN [W |-> W, pkg |-> P, candidates |-> Q,
                         results |-> results]
    ELSE CHOOSE r \in
            { promote_from(out.W, rules, cfg, out.pkg, out.candidates,
                           Tail(todo),
                           Append(results,
                                  [relation_id |-> Head(todo),
                                   ok |-> out.ok,
                                   dynamic_result |-> out.dynamic_result])) :
                out \in {promote_to_domain(W, rules, cfg, P, Q, Head(todo))} } :
            TRUE

\* PersonalPipeline.promote_candidates()
PromoteCandidates ==
    /\ \E out \in
          {IF ~analyzerConfig.dynamic_domain
           THEN [W |-> World, pkg |-> pkg, candidates |-> promotion_candidates,
                 results |-> <<>>]
           ELSE promote_from(World, staticRules, analyzerConfig, pkg,
                             promotion_candidates,
                             SelectSeq(promotion_candidates,
                                       LAMBDA rid : rid \in DOMAIN pkg),
                             <<>>)} :
          /\ Apply(out.W)
          /\ pkg' = out.pkg
          /\ promotion_candidates' = out.candidates
          /\ lastRun' = [op |-> "promote_candidates", results |-> out.results]
    /\ UNCHANGED <<txState, txError, activeTx, txHistory, scope, caught,
                   callResult, pre, calls, staticRules, personalCandidates,
                   batchError, analyzerConfig, lastDrift, now, stats,
                   gateway, deployment>>

\* the Personal pipeline: relations are updated, analysed and promoted
SpecPersonal ==
    InitDynamic /\ [][\/ Tick
                      \/ \E c \in {intake_process(EdgeIn[i]) : i \in 2..3},
                            pcs_result \in
                               {[pcs_score |-> 3000,
                                 personal_label |-> "noisy_hypothesis"],
                                [pcs_score |-> 5000,
                                 personal_label |-> "weak_belief"],
                                [pcs_score |-> 9000,
                                 personal_label |-> "strong_belief"]} :
                            PkgUpdate(c, pcs_result)
                      \/ \E id \in DOMAIN pkg : Analyze(pkg[id])
                      \/ PromoteCandidates]_vars

\* C22: after PersonalKGUpdate.update on an existing relation the stored
\* personal_label is the one of the stored (averaged) pcs_score: STRONG iff
\* pcs_score >= 0.7, WEAK iff 0.4 <= pcs_score < 0.7, NOISY otherwise.
C22_LabelFollowsStoredScore ==
    [][\A id \in DOMAIN pkg :
          (/\ calls' = calls + 1
           /\ lastRun'.op = "pkg_update"
           /\ lastRun'.results[1].relation_id = id
           /\ ~lastRun'.results[1].is_new)
          => /\ pkg'[id].pcs_score
                   = (pkg[id].pcs_score * 7
                      + lastRun'.results[1].pcs_result.pcs_score * 3) \div 10
             /\ pkg'[id].personal_label =
                   IF pkg'[id].pcs_score >= 7000 THEN "strong_belief"
                   ELSE IF pkg'[id].pcs_score >= 4000 THEN "weak_belief"
                   ELSE "noisy_hypothesis"]_vars

\* C28: one promote_candidates() call applies at most one Domain update per
\* distinct Personal relation and appends at most one promoted_to_domain
\* event to each relation's history, however often the relation was analysed
\* beforehand.
C28_PromotedOncePerCall ==
    [][\A id \in DOMAIN pkg :
          (lastRun'.op = "promote_candidates" /\ pkg' # pkg)
          => /\ Cardinality({i \in 1..Len(lastRun'.results) :
                               /\ lastRun'.results[i].relation_id = id
                               /\ lastRun'.results[i].dynamic_result # None})
                   <= 1
             /\ Len(pkg'[id].history) <= Len(pkg[id].history) + 1]_vars

\* ---------------------------------------------------------------------
\* Part 8: reasoning over the Domain and Personal graphs.
\* Edge weights are in 1/10000.  Path strengths and evidence sums are in
\* 1/10^8, the unit of a product of two edge weights: the graphs below hold
\* paths of one or two edges, and a one-edge strength is brought to that
\* unit.
\* ---------------------------------------------------------------------
max_path_length == 4
max_paths == 10

RECURSIVE weight_product(_)
\* the loop "path_weight *= max(edge.final_weight, 0.01)" over the weights
weight_product(ws) ==
    IF ws = <<>> THEN 1
    ELSE (IF Head(ws) > 100 THEN Head(ws) ELSE 100) * weight_product(Tail(ws))

\* EdgeWeightFusion.fuse_path on a retrieved path
fuse_path(path) ==
    LET \* _fuse_edge
        fuse_edge(edge) ==
            LET n == 2 * edge.evidence_count
                evidence_bonus == 100 + (IF n < 20 THEN n ELSE 20)
                domain_weight ==
                    IF edge.source = "domain"
                    THEN (edge.domain_conf * evidence_bonus) \div 100 ELSE 0
                personal_weight ==
                    IF edge.source = "personal"
                    THEN (edge.pcs_score * edge.personal_weight) \div 10000
                    ELSE 0
            IN  [edge_id |-> edge.relation_id, head_id |-> edge.head,
                 tail_id |-> edge.tail, sign |-> edge.sign,
                 domain_weight |-> domain_weight,
                 personal_weight |-> personal_weight,
                 final_weight |-> domain_weight + personal_weight]
        fused_edges == [i \in 1..Len(path.edges) |-> fuse_edge(path.edges[i])]
        \* _calculate_path_metrics: the sign flips at every "-" edge
        flips == Cardinality({i \in 1..Len(fused_edges) :
                                 fused_edges[i].sign = "-"})
    IN  [nodes |-> path.nodes, fused_edges |-> fused_edges,
         path_weight |->
             IF fused_edges = <<>> THEN 0
             ELSE weight_product([i \in 1..Len(fused_edges) |->
                                     fused_edges[i].final_weight]),
         path_sign |-> IF flips % 2 = 1 THEN "-" ELSE "+"]

\* PathReasoningEngine.reason answering NEUTRAL when it is given no path
path_reason_neutral_when_empty(fused_paths) ==
    IF fused_paths = <<>>
    THEN [direction |-> "neutral", confidence |-> [num |-> 0, den |-> 1],
          paths_used |-> <<>>, strongest_path |-> None,
          positive_evidence |-> 0, negative_evidence |-> 0,
          conflicting_paths |-> 0]
    ELSE
    LET \* _reason_single_path
        reason_single_path(fused_path) ==
            LET edges == fused_path.fused_edges
                edge_signs == [i \in 1..Len(edges) |-> edges[i].sign]
                edge_weights == [i \in 1..Len(edges) |-> edges[i].final_weight]
                flips == Cardinality({i \in 1..Len(edges) :
                                         edges[i].sign = "-"})
            IN  [nodes |-> fused_path.nodes,
                 combined_sign |-> IF flips % 2 = 1 THEN "-" ELSE "+",
                 path_strength |->
                     IF edges = <<>> THEN 0
                     ELSE weight_product(edge_weights)
                          * (IF Len(edges) = 1 THEN 10000 ELSE 1),
                 edge_signs |-> edge_signs, edge_weights |-> edge_weights]
        path_results ==
            [i \in 1..Len(fused_paths) |-> reason_single_path(fused_paths[i])]
        \* _aggregate_paths
        RECURSIVE evidence(_, _)
        evidence(i, positive) ==
            IF i > Len(path_results) THEN 0
            ELSE (IF (path_results[i].combined_sign = "+") = positive
                  THEN path_results[i].path_strength ELSE 0)
                 + evidence(i + 1, positive)
        positive_evidence == evidence(1, TRUE)
        negative_evidence == evidence(1, FALSE)
        total_evidence == positive_evidence + negative_evidence
        net_evidence == positive_evidence - negative_evidence
        abs_net == IF net_evidence < 0 THEN - net_evidence ELSE net_evidence
        den == IF total_evidence > 1000000 THEN total_evidence ELSE 1000000
        strongest ==
            CHOOSE i \in 1..Len(path_results) :
                /\ \A j \in 1..Len(path_results) :
                      path_results[j].path_strength
                          <= path_results[i].path_strength
                /\ \A j \in 1..(i - 1) :
                      path_results[j].path_strength
                          < path_results[i].path_strength
    IN  [direction |-> IF total_evidence = 0 THEN "unknown"
                       ELSE IF net_evidence > 5000000 THEN "+"
                       ELSE IF net_evidence < -5000000 THEN "-"
                       ELSE "neutral",
         \* confidence is num / den
         confidence |-> IF total_evidence = 0 THEN [num |-> 0, den |-> 1]
                        ELSE [num |-> IF abs_net < den THEN abs_net ELSE den,
                              den |-> den],
         paths_used |-> path_results,
         strongest_path |-> path_results[strongest],
         positive_evidence |-> positive_evidence,
         negative_evidence |-> negative_evidence,
         conflicting_paths |->
             IF positive_evidence > 0 /\ negative_evidence > 0
             THEN Cardinality({i \in 1..Len(path_results) :
                                  path_results[i].combined_sign = "-"})
             ELSE 0]

\* PathReasoningEngine.reason on the fused paths.  Evidence is in 1/10^8:
\* 0.05 is 5000000 and 0.01 is 1000000.
path_reason(fused_paths) ==
    IF fused_paths = <<>>
    THEN [direction |-> "unknown", confidence |-> [num |-> 0, den |-> 1],
          paths_used |-> <<>>, strongest_path |-> None,
          positive_evidence |-> 0, negative_evidence |-> 0,
          conflicting_paths |-> 0]
    ELSE
    LET \* _reason_single_path
        reason_single_path(fused_path) ==
            LET edges == fused_path.fused_edges
                edge_signs == [i \in 1..Len(edges) |-> edges[i].sign]
                edge_weights == [i \in 1..Len(edges) |-> edges[i].final_weight]
                flips == Cardinality({i \in 1..Len(edges) :
                                         edges[i].sign = "-"})
            IN  [nodes |-> fused_path.nodes,
                 combined_sign |-> IF flips % 2 = 1 THEN "-" ELSE "+",
                 path_strength |->
                     IF edges = <<>> THEN 0
                     ELSE weight_product(edge_weights)
                          * (IF Len(edges) = 1 THEN 10000 ELSE 1),
                 edge_signs |-> edge_signs, edge_weights |-> edge_weights]
        path_results ==
            [i \in 1..Len(fused_paths) |-> reason_single_path(fused_paths[i])]
        \* _aggregate_paths
        RECURSIVE evidence(_, _)
        evidence(i, positive) ==
            IF i > Len(path_results) THEN 0
            ELSE (IF (path_results[i].combined_sign = "+") = positive
                  THEN path_results[i].path_strength ELSE 0)
                 + evidence(i + 1, positive)
        positive_evidence == evidence(1, TRUE)
        negative_evidence == evidence(1, FALSE)
        total_evidence == positive_evidence + negative_evidence
        net_evidence == positive_evidence - negative_evidence
        abs_net == IF net_evidence < 0 THEN - net_evidence ELSE net_evidence
        den == IF total_evidence > 1000000 THEN total_evidence ELSE 1000000
        strongest ==
            CHOOSE i \in 1..Len(path_results) :
                /\ \A j \in 1..Len(path_results) :
                      path_results[j].path_strength
                          <= path_results[i].path_strength
                /\ \A j \in 1..(i - 1) :
                      path_results[j].path_strength
                          < path_results[i].path_strength
    IN  [direction |-> IF total_evidence = 0 THEN "unknown"
                       ELSE IF net_evidence > 5000000 THEN "+"
                       ELSE IF net_evidence < -5000000 THEN "-"
                       ELSE "neutral",
         \* confidence is num / den
         confidence |-> IF total_evidence = 0 THEN [num |-> 0, den |-> 1]
                        ELSE [num |-> IF abs_net < den THEN abs_net ELSE den,
                              den |-> den],
         paths_used |-> path_results,
         strongest_path |-> path_results[strongest],
         positive_evidence |-> positive_evidence,
         negative_evidence |-> negative_evidence,
         conflicting_paths |->
             IF positive_evidence > 0 /\ negative_evidence > 0
             THEN Cardinality({i \in 1..Len(path_results) :
                                  path_results[i].combined_sign = "-"})
             ELSE 0]

\* GraphRetrieval._find_paths_bfs over the relations of one graph, in the
\* order get_all_relations lists them
find_paths_bfs(start, end, rels, source) ==
    LET RECURSIVE bfs(_, _)
        bfs(queue, paths) ==
            IF queue = <<>> \/ Len(paths) >= max_paths THEN paths
            ELSE
            LET current == Head(queue)
                out == SelectSeq(rels, LAMBDA r :
                          /\ r.head_id = current.path[Len(current.path)]
                          /\ ~InSeq(r.tail_id, current.path))
                step(r) ==
                    [path |-> Append(current.path, r.tail_id),
                     edges |-> Append(current.edges,
                                  [relation_id |-> r.relation_id,
                                   head |-> r.head_id, tail |-> r.tail_id,
                                   sign |-> r.sign,
                                   domain_conf |-> r.domain_conf,
                                   evidence_count |-> r.evidence_count,
                                   source |-> source])]
                RECURSIVE found(_, _)
                found(i, ps) ==
                    IF i > Len(out) THEN ps
                    ELSE found(i + 1,
                           IF /\ out[i].tail_id = end
                              /\ ~\E j \in 1..Len(ps) :
                                    ps[j].nodes = step(out[i]).path
                           THEN Append(ps,
                                  [nodes |-> step(out[i]).path,
                                   edges |-> step(out[i]).edges,
                                   source |-> source,
                                   path_length |-> Len(step(out[i]).path) - 1])
                           ELSE ps)
                onward == SelectSeq(out, LAMBDA r : r.tail_id # end)
            IN  IF Len(current.path) > max_path_length
                THEN bfs(Tail(queue), paths)
                ELSE bfs(Tail(queue)
                           \o [i \in 1..Len(onward) |-> step(onward[i])],
                         found(1, paths))
    IN  IF start = end THEN <<>>
        ELSE bfs(<<[path |-> <<start>>, edges |-> <<>>]>>, <<>>)

\* GraphRetrieval.retrieve ; domain and personal are None or hold the
\* relations get_all_relations returns
retrieve(parsed_query, domain, personal) ==
    LET head == parsed_query.head_entity
        tail == parsed_query.tail_entity
        by_key(relation_type) ==
            SelectSeq(domain.relations, LAMBDA r :
                /\ r.head_id = head /\ r.tail_id = tail
                /\ r.relation_type = relation_type)
        direct_edges ==
            IF by_key("Affect") # <<>> THEN by_key("Affect")
            ELSE by_key("Cause")
        domain_direct ==
            IF domain # None /\ head # "none" /\ tail # "none"
               /\ direct_edges # <<>>
            THEN <<[nodes |-> <<head, tail>>,
                    edges |-> <<[relation_id |-> direct_edges[1].relation_id,
                                 head |-> head, tail |-> tail,
                                 sign |-> direct_edges[1].sign,
                                 domain_conf |-> direct_edges[1].domain_conf,
                                 evidence_count |->
                                     direct_edges[1].evidence_count,
                                 source |-> "domain"]>>,
                    source |-> "domain", path_length |-> 1]>>
            ELSE <<>>
        domain_indirect ==
            IF domain # None /\ head # "none" /\ tail # "none"
            THEN SelectSeq(find_paths_bfs(head, tail, domain.relations,
                                          "domain"),
                           LAMBDA p : p.path_length > 1)
            ELSE <<>>
        \* _search_personal
        matching ==
            IF personal = None \/ tail = "none" THEN <<>>
            ELSE SelectSeq(personal.relations, LAMBDA r :
                    r.head_id = head /\ r.tail_id = tail)
        personal_paths ==
            IF personal # None /\ Len(domain_direct) + Len(domain_indirect) < 3
            THEN SubSeq([i \in 1..Len(matching) |->
                           [nodes |-> <<head, tail>>,
                            edges |-> <<[relation_id |->
                                             matching[i].relation_id,
                                         head |-> head, tail |-> tail,
                                         sign |-> matching[i].sign,
                                         pcs_score |-> matching[i].pcs_score,
                                         personal_weight |->
                                             matching[i].personal_weight,
                                         source |-> "personal"]>>,
                            source |-> "personal", path_length |-> 1]],
                        1, IF Len(matching) < max_paths THEN Len(matching)
                           ELSE max_paths)
            ELSE <<>>
        indirect_paths == domain_indirect
    IN  IF head = "none"
        THEN [direct_paths |-> <<>>, indirect_paths |-> <<>>,
              domain_paths_count |-> 0, personal_paths_count |-> 0]
        ELSE [direct_paths |-> domain_direct \o personal_paths,
              indirect_paths |->
                  SubSeq(indirect_paths, 1,
                         IF Len(indirect_paths) < max_paths
                         THEN Len(indirect_paths) ELSE max_paths),
              domain_paths_count |->
                  Len(domain_direct) + Len(domain_indirect),
              personal_paths_count |-> Len(personal_paths)]

\* ReasoningPipeline.reason on a query in which entity extraction found
\* query_entities, in that order
reason(query_entities, domain, personal) ==
    LET \* QueryParser._identify_structure
        head_order == <<"Heavy_Rain", "Heavy_Snow", "Road_Construction",
                        "BRT", "Rush_Hour">>
        tail_order == <<"Traffic_Congestion", "Travel_Time", "Bus_Headway",
                        "Traffic_Speed">>
        First(order, ok(_)) ==
            LET hits == SelectSeq(order, ok)
            IN  IF hits = <<>> THEN "none" ELSE hits[1]
        head == IF query_entities = <<>> THEN "none"
                ELSE IF First(head_order, LAMBDA e : InSeq(e, query_entities))
                        # "none"
                THEN First(head_order, LAMBDA e : InSeq(e, query_entities))
                ELSE query_entities[1]
        tail == IF query_entities = <<>> THEN "none"
                ELSE IF First(tail_order,
                              LAMBDA e : InSeq(e, query_entities) /\ e # head)
                        # "none"
                THEN First(tail_order,
                           LAMBDA e : InSeq(e, query_entities) /\ e # head)
                ELSE First(query_entities, LAMBDA e : e # head)
        parsed_query == [query_entities |-> query_entities, head_entity |-> head,
                         tail_entity |-> tail]
        retrieval_result == retrieve(parsed_query, domain, personal)
        all_paths == retrieval_result.direct_paths
                         \o retrieval_result.indirect_paths
        fused_paths == [i \in 1..Len(all_paths) |-> fuse_path(all_paths[i])]
        reasoning_result == path_reason(fused_paths)
    IN  [parsed |-> parsed_query, retrieval |-> retrieval_result,
         reasoning |-> reasoning_result,
         \* ConclusionSynthesizer.synthesize copies both
         conclusion |-> [direction |-> reasoning_result.direction,
                         confidence |-> reasoning_result.confidence]]

\* one query answered by the reasoning pipeline
Reason(query_entities, domain, personal) ==
    /\ calls < MaxCalls
    /\ calls' = calls + 1
    /\ \E out \in {reason(query_entities, domain, personal)} :
          /\ lastRun' = [op |-> "reason",
                         results |-> <<[query_entities |-> query_entities,
                                        domain |-> domain,
                                        personal |-> personal,
                                        parsed |-> out.parsed,
                                        retrieval |-> out.retrieval,
                                        reasoning |-> out.reasoning,
                                        conclusion |-> out.conclusion,
                                        error |-> NoError]>>]
          /\ stats' = [stats EXCEPT
                         !.queries_processed = @ + 1,
                         !.paths_used_total =
                             @ + Len(out.reasoning.paths_used)]
    /\ UNCHANGED <<entities, relations, txState, txChanges, txError,
                   activeTx, txHistory, scope, caught, callResult, pre,
                   staticRules, personalCandidates, batchError,
                   analyzerConfig, promotion_candidates, lastDrift, now, pkg,
                   gateway, deployment>>

\* queries, Domain graphs over A, B, C, D (the signs of A->B, A->C, C->B,
\* A->D, D->B, "0" for an absent relation) and Personal relations A->B
ReasonIn ==
    LET ends == <<<<"A", "B">>, <<"A", "C">>, <<"C", "B">>, <<"A", "D">>,
                  <<"D", "B">>>>
        DomainGraph(signs, conf) ==
            [present |-> TRUE,
             relations |->
                 SelectSeq([i \in 1..5 |->
                              [relation_id |-> "DYN_" \o ends[i][1] \o "_Affect_"
                                                  \o ends[i][2],
                               head_id |-> ends[i][1], tail_id |-> ends[i][2],
                               relation_type |-> "Affect", sign |-> signs[i],
                               domain_conf |-> conf, evidence_count |-> 1]],
                           LAMBDA r : r.sign # "0")]
        PersonalGraph(sign, pcs_score, personal_weight) ==
            [present |-> TRUE,
             relations |-> <<[relation_id |-> "PKG_A_B", head_id |-> "A",
                              tail_id |-> "B", sign |-> sign,
                              pcs_score |-> pcs_score,
                              personal_weight |-> personal_weight]>>]
    IN  [query_entities : {<<>>, <<"A">>, <<"A", "B">>},
         domain : {None}
             \cup {DomainGraph(signs, 5000) : signs \in
                     {<<"0", "0", "0", "0", "0">>,
                      <<"+", "0", "0", "0", "0">>,
                      <<"-", "0", "0", "0", "0">>,
                      <<"unknown", "0", "0", "0", "0">>,
                      <<"0", "+", "-", "0", "0">>,
                      <<"0", "unknown", "+", "0", "0">>,
                      <<"+", "+", "-", "0", "0">>,
                      <<"-", "-", "-", "0", "0">>,
                      <<"+", "+", "+", "+", "+">>,
                      <<"-", "+", "+", "-", "+">>,
                      <<"unknown", "unknown", "+", "unknown", "+">>,
                      <<"unknown", "+", "unknown", "+", "unknown">>}}
             \cup {DomainGraph(signs, 1000) : signs \in
                     {<<"+", "0", "0", "0", "0">>,
                      <<"0", "+", "+", "0", "0">>,
                      <<"0", "+", "-", "0", "0">>}},
         personal : {None, [present |-> TRUE, relations |-> <<>>],
                     PersonalGraph("+", 9000, 9000),
                     PersonalGraph("-", 5000, 2500),
                     PersonalGraph("+", 3000, 300)}]

\* the reasoning pipeline answers queries
SpecReasoning ==
    Init /\ [][\E in \in ReasonIn :
                  Reason(in.query_entities, in.domain, in.personal)]_vars

\* C23: a retrieved path with an edge of unknown sign has no path sign and
\* is dropped: it is not among the paths used, and it adds to neither
\* positive_evidence nor negative_evidence.
C23_UnknownSignPathDropped ==
    lastRun.op = "reason" =>
        LET r == lastRun.results[1]
            retrieved == r.retrieval.direct_paths \o r.retrieval.indirect_paths
            unknown(signs) == \E j \in 1..Len(signs) : signs[j] = "unknown"
        IN  /\ \A i \in 1..Len(r.reasoning.paths_used) :
                  ~unknown(r.reasoning.paths_used[i].edge_signs)
            /\ (\A i \in 1..Len(retrieved) :
                   unknown([j \in 1..Len(retrieved[i].edges) |->
                               retrieved[i].edges[j].sign]))
               => /\ r.reasoning.positive_evidence = 0
                  /\ r.reasoning.negative_evidence = 0

\* C24: when the Personal graph holds a relation from the head to the tail
\* of the query, its path is retrieved if every Domain path found has an
\* edge of unknown sign, however many Domain paths there are, and otherwise
\* exactly when fewer than 3 Domain paths were found.
C24_PersonalFallback ==
    lastRun.op = "reason" =>
        LET r == lastRun.results[1]
            retrieved == r.retrieval.direct_paths \o r.retrieval.indirect_paths
            all_unknown ==
                /\ r.retrieval.domain_paths_count > 0
                /\ \A i \in 1..Len(retrieved) :
                      retrieved[i].source = "domain"
                      => \E j \in 1..Len(retrieved[i].edges) :
                            retrieved[i].edges[j].sign = "unknown"
            held == /\ r.personal # None
                    /\ \E k \in 1..Len(r.personal.relations) :
                          /\ r.personal.relations[k].head_id
                                 = r.parsed.head_entity
                          /\ r.personal.relations[k].tail_id
                                 = r.parsed.tail_entity
        IN  held => (r.retrieval.personal_paths_count > 0
                        <=> (all_unknown
                             \/ r.retrieval.domain_paths_count < 3))

\* C25: with net = positive - negative evidence and total = positive +
\* negative evidence > 0, the direction is POSITIVE iff net > 0.05 * total,
\* NEGATIVE iff net < -0.05 * total and NEUTRAL otherwise, and the
\* confidence is min(1, |net| / max(total, 0.01)), a number in [0, 1].
C25_DirectionRelativeToTotal ==
    lastRun.op = "reason" =>
        LET r == lastRun.results[1].reasoning
            total == r.positive_evidence + r.negative_evidence
            net == r.positive_evidence - r.negative_evidence
            abs_net == IF net < 0 THEN - net ELSE net
            floor == IF total > 1000000 THEN total ELSE 1000000
        IN  total > 0 =>
               /\ r.direction = IF 20 * net > total THEN "+"
                                ELSE IF 20 * net < - total THEN "-"
                                ELSE "neutral"
               /\ r.confidence.den = floor
               /\ r.confidence.num = IF abs_net < floor THEN abs_net
                                     ELSE floor
               /\ 0 <= r.confidence.num
               /\ r.confidence.num <= r.confidence.den

\* C26: a reasoning request in which no head entity is found, or for which
\* no path is retrieved, is answered with direction UNKNOWN and confidence
\* 0, without an error.
C26_NoPathGivesUnknown ==
    lastRun.op = "reason" =>
        LET r == lastRun.results[1]
        IN  (\/ r.parsed.head_entity = "none"
             \/ r.retrieval.direct_paths \o r.retrieval.indirect_paths = <<>>)
            => /\ r.conclusion.direction = "unknown"
               /\ r.conclusion.confidence.num = 0
               /\ r.reasoning.paths_used = <<>>
               /\ r.error = NoError

\* a query with a head and a tail for which neither graph holds a path
C26_Witness ==
    /\ lastRun.op = "reason"
    /\ lastRun.results[1].parsed.head_entity = "A"
    /\ lastRun.results[1].parsed.tail_entity = "B"
    /\ lastRun.results[1].domain # None
    /\ lastRun.results[1].retrieval.domain_paths_count = 0
    /\ lastRun.results[1].retrieval.personal_paths_count = 0
    /\ lastRun.results[1].conclusion.direction = "unknown"

\* ---------------------------------------------------------------------
\* Part 9: the LLM gateway.  A client is given by what its successive
\* generate calls do: "ok" answers, "timeout" raises an error classified
\* retryable, "auth" raises one classified not retryable.
\* ---------------------------------------------------------------------
\* LLMGateway._try_with_retry ; calls counts the invocations of the client
try_with_retry(client, behaviour, max_retries) ==
    LET RECURSIVE attempt(_)
        attempt(n) ==
            IF n > max_retries
            THEN [response |-> None,
                  error |-> [present |-> TRUE, error_type |-> "timeout",
                             retryable |-> TRUE],
                  calls |-> max_retries]
            ELSE IF behaviour[n] = "ok"
            THEN [response |-> [present |-> TRUE, client |-> client,
                                total_tokens |-> 10, latency_ms |-> 5,
                                cached |-> FALSE],
                  error |-> None, calls |-> n]
            ELSE IF behaviour[n] = "auth"
            THEN [response |-> None,
                  error |-> [present |-> TRUE, error_type |-> "auth",
                             retryable |-> FALSE],
                  calls |-> n]
            ELSE attempt(n + 1)
    IN  IF max_retries = 0
        THEN [response |-> None, error |-> None, calls |-> 0]
        ELSE attempt(1)

\* LLMGateway.generate on gateway g: the response returned or the exception
\* raised, and the gateway afterwards
generate(g, prompt, primary, fallback) ==
    LET counted == [g EXCEPT !.stats.total_requests = @ + 1]
        first == try_with_retry("primary", primary, g.max_retries)
        second == try_with_retry("fallback", fallback, g.max_retries)
        update_stats(h, response) ==
            [h EXCEPT !.stats.total_tokens = @ + response.total_tokens,
                      !.stats.total_latency_ms = @ + response.latency_ms]
    IN  IF g.enable_cache /\ g.cache[prompt] # None
        THEN [response |-> [g.cache[prompt] EXCEPT !.cached = TRUE],
              raised |-> NoError, primary_calls |-> 0, fallback_calls |-> 0,
              gateway |-> [counted EXCEPT !.stats.cache_hits = @ + 1,
                                          !.cache[prompt].cached = TRUE]]
        ELSE IF first.response # None
        THEN [response |-> first.response, raised |-> NoError,
              primary_calls |-> first.calls, fallback_calls |-> 0,
              gateway |->
                  LET h == update_stats([counted EXCEPT
                                           !.stats.primary_success = @ + 1],
                                        first.response)
                  IN  IF g.enable_cache
                      THEN [h EXCEPT !.cache[prompt] = first.response]
                      ELSE h]
        ELSE IF g.fallback /\ first.error # None /\ first.error.retryable
                /\ second.response # None
        THEN [response |-> second.response, raised |-> NoError,
              primary_calls |-> first.calls, fallback_calls |-> second.calls,
              gateway |-> update_stats([counted EXCEPT
                                          !.stats.fallback_success = @ + 1],
                                       second.response)]
        ELSE [response |-> None, raised |-> "LLMGatewayError",
              primary_calls |-> first.calls,
              fallback_calls |->
                  IF g.fallback /\ first.error # None /\ first.error.retryable
                  THEN second.calls ELSE 0,
              gateway |-> [counted EXCEPT !.stats.total_failures = @ + 1]]

Prompts == {"p1", "p2"}

\* LLMGateway.__init__
BuildGateway(fallback, max_retries, enable_cache) ==
    /\ gateway = None
    /\ gateway' = [present |-> TRUE, fallback |-> fallback,
                   max_retries |-> max_retries,
                   enable_cache |-> enable_cache,
                   cache |-> [q \in Prompts |-> None],
                   stats |-> [total_requests |-> 0, cache_hits |-> 0,
                              primary_success |-> 0, fallback_success |-> 0,
                              total_failures |-> 0, total_tokens |-> 0,
                              total_latency_ms |-> 0]]
    /\ UNCHANGED <<entities, relations, txState, txChanges, txError,
                   activeTx, txHistory, scope, caught, callResult, pre,
                   calls, staticRules, personalCandidates, lastRun,
                   batchError, analyzerConfig, promotion_candidates,
                   lastDrift, now, pkg, stats, deployment>>

\* one LLMGateway.generate call
Generate(prompt, primary, fallback) ==
    /\ gateway # None
    /\ calls < MaxCalls
    /\ calls' = calls + 1
    /\ \E out \in {generate(gateway, prompt, primary, fallback)} :
          /\ gateway' = out.gateway
          /\ lastRun' = [op |-> "generate",
                         results |-> <<[prompt |-> prompt,
                                        primary |-> primary,
                                        fallback |-> fallback,
                                        response |-> out.response,
                                        raised |-> out.raised,
                                        primary_calls |-> out.primary_calls,
                                        fallback_calls |->
                                            out.fallback_calls]>>]
    /\ UNCHANGED <<entities, relations, txState, txChanges, txError,
                   activeTx, txHistory, scope, caught, callResult, pre,
                   staticRules, personalCandidates, batchError,
                   analyzerConfig, promotion_candidates, lastDrift, now,
                   pkg, stats, deployment>>

\* a gateway is built and asked; the clients' behaviours are the outcomes
\* of their first three calls
SpecGateway ==
    Init /\ [][\/ \E fallback, enable_cache \in BOOLEAN,
                     max_retries \in {1, 3} :
                     BuildGateway(fallback, max_retries, enable_cache)
               \/ \E prompt \in Prompts,
                     primary, fallback \in
                         {<<"ok", "ok", "ok">>, <<"timeout", "ok", "ok">>,
                          <<"timeout", "timeout", "timeout">>,
                          <<"auth", "ok", "ok">>,
                          <<"timeout", "auth", "ok">>} :
                     Generate(prompt, primary, fallback)]_vars

\* C27: when the primary client fails at every attempt and a fallback
\* client is configured and answers, generate returns the fallback's
\* response and counts fallback_success instead of raising; each client is
\* invoked at most max_retries times in one call; and the call ends by
\* returning a response or by raising LLMGatewayError.
C27_FallbackAnswers ==
    [][lastRun'.op = "generate" /\ gateway' # gateway =>
          LET r == lastRun'.results[1]
              attempts == SubSeq(r.primary, 1, r.primary_calls)
          IN  /\ (/\ r.primary_calls > 0
                  /\ \A n \in 1..r.primary_calls : attempts[n] # "ok"
                  /\ gateway.fallback
                  /\ r.fallback[1] = "ok")
                 => /\ r.raised = NoError
                    /\ r.response # None
                    /\ r.response.client = "fallback"
                    /\ gateway'.stats.fallback_success
                           = gateway.stats.fallback_success + 1
              /\ r.primary_calls <= gateway.max_retries
              /\ r.fallback_calls <= gateway.max_retries
              /\ (r.response # None) # (r.raised = "LLMGatewayError")]_vars

\* ---------------------------------------------------------------------
\* Part 10: review and deployment of configuration bundles.
\* ---------------------------------------------------------------------
MaxBundles == 2     \* bundles ever created
MaxDeploys == 2     \* successful deploy_bundle calls

\* ReviewDeploymentManager.create_bundle
CreateBundle ==
    /\ Len(deployment.bundles) < MaxBundles
    /\ deployment' =
          [deployment EXCEPT
             !.bundles = Append(@, [status |-> "proposed",
                                    review_notes |-> "none",
                                    deployed_at |-> "none"])]
    /\ lastRun' = [op |-> "create_bundle",
                   results |-> <<[version |-> Len(deployment.bundles) + 1,
                                  ok |-> TRUE]>>]
    /\ UNCHANGED <<entities, relations, txState, txChanges, txError,
                   activeTx, txHistory, scope, caught, callResult, pre,
                   calls, staticRules, personalCandidates, batchError,
                   analyzerConfig, promotion_candidates, lastDrift, now,
                   pkg, stats, gateway>>

\* ReviewDeploymentManager.review_bundle(version, approved, notes)
ReviewBundle(version, approved, notes) ==
    /\ \E found \in {version \in 1..Len(deployment.bundles)} :
          /\ deployment' =
                IF found
                THEN [deployment EXCEPT
                        !.bundles[version].status =
                            IF approved THEN "reviewed" ELSE "rolled_back",
                        !.bundles[version].review_notes = notes]
                ELSE deployment
          /\ lastRun' = [op |-> "review_bundle",
                         results |-> <<[version |-> version, ok |-> found]>>]
    /\ UNCHANGED <<entities, relations, txState, txChanges, txError,
                   activeTx, txHistory, scope, caught, callResult, pre,
                   calls, staticRules, personalCandidates, batchError,
                   analyzerConfig, promotion_candidates, lastDrift, now,
                   pkg, stats, gateway>>

\* ReviewDeploymentManager.deploy_bundle(version)
DeployBundle(version) ==
    /\ Len(deployment.deployment_history) < MaxDeploys
    /\ \E ok \in {/\ version \in 1..Len(deployment.bundles)
                  /\ deployment.bundles[version].status = "reviewed"} :
          /\ deployment' =
                IF ~ok THEN deployment
                ELSE LET old == deployment.active_bundle
                         demoted ==
                             IF old # 0
                             THEN [deployment.bundles EXCEPT
                                     ![old].status = "rolled_back"]
                             ELSE deployment.bundles
                     IN  [bundles |-> [demoted EXCEPT
                                         ![version].status = "deployed",
                                         ![version].deployed_at = now],
                          active_bundle |-> version,
                          \* "previous" is read after _active_bundle is set
                          deployment_history |->
                              Append(deployment.deployment_history,
                                     [version |-> version,
                                      previous |-> version])]
          /\ lastRun' = [op |-> "deploy_bundle",
                         results |-> <<[version |-> version, ok |-> ok]>>]
    /\ UNCHANGED <<entities, relations, txState, txChanges, txError,
                   activeTx, txHistory, scope, caught, callResult, pre,
                   calls, staticRules, personalCandidates, batchError,
                   analyzerConfig, promotion_candidates, lastDrift, now,
                   pkg, stats, gateway>>

\* ReviewDeploymentManager.rollback(to_version)
Rollback(to_version) ==
    /\ \E found \in {to_version \in 1..Len(deployment.bundles)} :
          /\ deployment' =
                IF ~found THEN deployment
                ELSE LET current == deployment.active_bundle
                         demoted ==
                             IF current # 0
                             THEN [deployment.bundles EXCEPT
                                     ![current].status = "rolled_back"]
                             ELSE deployment.bundles
                     IN  [deployment EXCEPT
                            !.bundles = [demoted EXCEPT
                                           ![to_version].status = "deployed"],
                            !.active_bundle = to_version]
          /\ lastRun' = [op |-> "rollback",
                         results |-> <<[version |-> to_version,
                                        ok |-> found]>>]
    /\ UNCHANGED <<entities, relations, txState, txChanges, txError,
                   activeTx, txHistory, scope, caught, callResult, pre,
                   calls, staticRules, personalCandidates, batchError,
                   analyzerConfig, promotion_candidates, lastDrift, now,
                   pkg, stats, gateway>>

\* bundles are created, reviewed, deployed and rolled back in any order
SpecDeployment ==
    Init /\ [][\/ CreateBundle
               \/ \E version \in 1..MaxBundles, approved \in BOOLEAN :
                     ReviewBundle(version, approved, "notes")
               \/ \E version \in 1..MaxBundles : DeployBundle(version)
               \/ \E to_version \in 1..MaxBundles :
                     Rollback(to_version)]_vars

\* C30: over any sequence of create_bundle, review_bundle, deploy_bundle and
\* rollback calls, a bundle's status becomes DEPLOYED only from REVIEWED,
\* and whenever an active bundle is set it is the only bundle whose status
\* is DEPLOYED.
C30_DeployedOnlyFromReviewed ==
    [][/\ \A v \in 1..Len(deployment'.bundles) :
             (/\ deployment'.bundles[v].status = "deployed"
              /\ \/ v > Len(deployment.bundles)
                 \/ deployment.bundles[v].status # "deployed")
             => /\ v <= Len(deployment.bundles)
                /\ deployment.bundles[v].status = "reviewed"
       /\ deployment'.active_bundle # 0
          => \A v \in 1..Len(deployment'.bundles) :
                deployment'.bundles[v].status = "deployed"
                    <=> v = deployment'.active_bundle]_vars

\* C29: TO_DRIFT is reached during ingest: for a stored Domain relation of
\* sign + or - with domain_conf below 0.4 and a candidate of the opposite
\* sign whose evidence ratio is below min_evidence_ratio and whose semantic
\* tag is neither sem_wrong nor sem_spurious, with no other Domain path from
\* head to tail (EntityIds holds no third entity), ConflictAnalyzer.analyze
\* returns TO_DRIFT and DomainPipeline.process runs the drift detector.
C29_OppositeSignReachesDrift ==
    [][\A i \in 1..Len(lastRun'.results) :
          LET res == lastRun'.results[i]
              cres == res.conflict_result
              k == <<res.intake_result.head_canonical_id,
                     Scoped("domain", res.intake_result.relation_type),
                     res.intake_result.tail_canonical_id>>
              existing == IF cres.existing_evidence > 1
                          THEN cres.existing_evidence ELSE 1
              new == IF cres.new_evidence > 1 THEN cres.new_evidence ELSE 1
          IN (/\ lastRun'.op \in {"process", "process_batch"}
              /\ res.conflict_result # None
              /\ relations[k].present
              /\ relations[k].props.sign \in {"+", "-"}
              /\ res.intake_result.polarity \in {"+", "-"}
              /\ res.intake_result.polarity # relations[k].props.sign
              /\ cres.existing_evidence < min_evidence_ratio * new
              /\ cres.new_evidence < min_evidence_ratio * existing
              /\ relations[k].props.domain_conf < 4000
              /\ res.intake_result.semantic_tag
                    \notin {"sem_wrong", "sem_spurious"})
             => /\ cres.resolution = "to_drift_candidate"
                /\ res.drift_result # None]_vars
====
